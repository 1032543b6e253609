\* The recording with a native app, an Electron app that is recognised late, and
\* Clickweave; the draft with the bounds of MCRecorded.
SPECIFICATION RecordedSpec
CONSTANTS
  notes = notes  chat = chat  clickweave = clickweave  p1 = p1  p2 = p2
  App = {notes, chat, clickweave}
  Own = clickweave
  Web = {chat}
  Late = {chat}
  Kind = {"click", "text", "key"}
  KeyGap = 1
  ScrollGap = 1
  TextGap = 1
  MaxInputs = 3
  MaxClicks = 2  MaxTime = 3  MaxUnknown = 1  MaxWaiting = 1  MaxExtra = 2
SYMMETRY Interchangeable
INVARIANTS RecordedAsDone EnrichedInPlace HoversHappened
CHECK_DEADLOCK FALSE
