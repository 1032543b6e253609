-------------------------- MODULE AtomicSkillStore --------------------------
(***************************************************************************)
(* What the journal of skills/store.rs promises of one skill directory:    *)
(* a patch reaches all files of the skill or none of them, and a patch the *)
(* caller was told about stays.  The content of a file is the set of       *)
(* patches it includes.                                                    *)
(***************************************************************************)
EXTENDS Naturals

CONSTANTS
  Patch,   \* patches that may be applied
  N        \* files of the skill, SKILL.md first

VARIABLES
  content, \* of every file, as a reader that recovered the journal sees it
  acked    \* patches whose command returned Ok

vars == <<content, acked>>

File == 1 .. N

Init == content = [f \in File |-> {}] /\ acked = {}

Apply(p) ==
  /\ \A f \in File : p \notin content[f]
  /\ content' = [f \in File |-> content[f] \cup {p}]
  /\ UNCHANGED acked

Ack(p) ==
  /\ \A f \in File : p \in content[f]
  /\ acked' = acked \cup {p}
  /\ UNCHANGED content

Next == \E p \in Patch : Apply(p) \/ Ack(p)

Spec == Init /\ [][Next]_vars
=============================================================================
