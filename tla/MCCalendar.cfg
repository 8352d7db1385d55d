CONSTANTS
  s1 = s1 s2 = s2
  Guest = {g, h}
  Follow = {g}
  Slot = {s1, s2}
  Profile <- Profiles
SPECIFICATION Spec
INVARIANTS TypeOK GuestsConverge AnswersStand
PROPERTIES OneRevisionPerSequence CalendarAdvances
CHECK_DEADLOCK FALSE
