SPECIFICATION Spec
CONSTANTS
  Size = 5
  MaxItem = 3
  SeqRange = 16
  Payloads = {1, 2}
  Readers = {r1}
  MaxMsgs = 2
INVARIANT EofMeansDrained
