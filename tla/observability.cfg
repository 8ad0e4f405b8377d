\* Two requests at once, one operation inside each, two spans kept of about six.
CONSTANTS
  Tasks = {t1, t2}
  Inner = {"conversation.respond"}
  MaximumSpans = 2
  MaximumDepth = 2
  MaximumEnded = 5
SPECIFICATION Spec
INVARIANTS
  SpansSound
  ScrapeConsistent
CHECK_DEADLOCK FALSE
