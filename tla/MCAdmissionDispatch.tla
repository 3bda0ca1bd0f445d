------------------------ MODULE MCAdmissionDispatch ------------------------
(* Small instances of the driver around the scheduler: a handful of fences, *)
(* two work-item threads of each kind, interchangeable.                     *)
EXTENDS AdmissionDispatch, TLC

WorkerSymmetry == Permutations(PagingWorkers) \cup Permutations(RenderWorkers)
                    \cup Permutations(Contexts)
=============================================================================
