------------------------- MODULE MCSamplerAllocator -------------------------
(* Small instances of SamplerAllocator: two samplers, each on a thread.    *)
EXTENDS SamplerAllocator, TLC

CONSTANTS sampler1, sampler2, thread1, thread2, Samples1, Samples2

OwnThreads == (sampler1 :> thread1) @@ (sampler2 :> thread2)

SamplesOf == (sampler1 :> Samples1) @@ (sampler2 :> Samples2)
=============================================================================
