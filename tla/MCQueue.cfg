\* Two producers, so that signals overlap; two consumers, so that both can wait
\* while one is signalled, or one can take what the other was woken for.
CONSTANTS
    Producer = {p1, p2}
    Consumer = {c1, c2}
    PerProducer = 2
    NULL = NULL
SPECIFICATION Spec
INVARIANTS
    TypeOK
    FirstInFirstOut
    ElementsHaveThreads
PROPERTY
    ElementsAreTaken
