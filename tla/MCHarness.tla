------------------------------ MODULE MCHarness ------------------------------
(* Values of the constants of Harness and ResultLog for model checking.    *)
EXTENDS ResultLog

CONSTANTS splitlsm, unifiedlsm, misspelt, workloada

MCDb == {splitlsm, unifiedlsm, misspelt}
MCFile == {workloada}
MCTarget == MCDb \X MCFile
MCTargets == << <<splitlsm, workloada>>, <<misspelt, workloada>>,
                <<unifiedlsm, workloada>> >>
MCThreads == <<1, 2, 1>>
MCKnown == {splitlsm, unifiedlsm} \X MCFile
=============================================================================
