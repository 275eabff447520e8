\* Two load entries scanned in parallel while a second generation supersedes the first.
CONSTANTS
  e1 = e1
  e2 = e2
  None = None
  Entries = {e1, e2}
  MaxEdits = 1
SPECIFICATION FairSpec
INVARIANTS TypeOK SingleFetch ProgressPaired ReadyMeansCurrent
PROPERTIES ImplementsService EventuallyReady DeferredIsFlushed EditsAreServed
