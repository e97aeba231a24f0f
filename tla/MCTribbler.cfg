\* Two users at the same or at different servers.  Seven calls are enough to
\* create both, subscribe one to both, have both post and read the timeline, and
\* to create one, post three times and read it; an answer holds two tribbles, so
\* that it has an order and the third post pushes out the first.  The run ends
\* when the calls are used up.
CONSTANTS
    Members = {a, b}
    TribServers = {s1, s2}
    MaxTribs = 2
    MaxPosts = 3
    MaxCalls = 7
    MaxDeaths = 1
SYMMETRY Symmetry
SPECIFICATION TribSpec
INVARIANTS PostsKept TimelineComplete ErrorsExplained
CHECK_DEADLOCK FALSE
