----------------------------- MODULE SkillText -----------------------------
(***************************************************************************)
(* What a SKILL.md is made of, as far as its structure goes: lines, and    *)
(* the steps of its action sketch.                                         *)
(***************************************************************************)

\* A step: its argument is a literal or a reference to a variable; a loop has
\* the ids of its body.
Step(id, arg, body) == [id |-> id, arg |-> arg, body |-> body]
Literal == "literal"

Heading(level, text) == [kind |-> "heading", level |-> level, text |-> text]
SectionMarker(id) == [kind |-> "section", section |-> id]
StepMarker(id) == [kind |-> "step", step |-> id]
Prose(p, refs) == [kind |-> "prose", text |-> p, refs |-> refs]
Comment == [kind |-> "comment"]
Fence == [kind |-> "fence"]
=============================================================================
