SPECIFICATION Spec

CONSTANTS
  pending = pending
  issued = issued
  Messages = {pending, issued}
  NoMsg = NoMsg
  MaxWaits = 5

INVARIANTS
  TypeOK
  OwnLines
  ShowsCurrent
  OneAnimator

PROPERTIES
  AnimatorsEnd
