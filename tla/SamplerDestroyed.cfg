SPECIFICATION DestroySpec
CONSTANTS
    sampler1 = sampler1
    sampler2 = sampler2
    thread1 = thread1
    thread2 = thread2
    Null = Null
    Samplers = {sampler1, sampler2}
    Threads = {thread1, thread2}
    Owner <- OwnThreads
    Capacity = 2
    MaxSamples <- SamplesOf
    Samples1 = 3
    Samples2 = 3
    MaxNested = 1
PROPERTIES FullOffloaded
