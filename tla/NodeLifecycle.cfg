SPECIFICATION FairSpec
INVARIANTS DeafFromTheStart
PROPERTIES StopIsObeyed ExitIsObeyed
\* The process ends.
CHECK_DEADLOCK FALSE
