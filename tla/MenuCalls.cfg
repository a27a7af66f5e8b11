\* Three calls of one user agent, or two calls of two user agents (the instances
\* of MCMenu).
SPECIFICATION Spec
INVARIANTS
  CallLists
  OneActive
  
  GoesWithCalls
