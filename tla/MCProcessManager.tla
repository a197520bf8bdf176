-------------------------- MODULE MCProcessManager --------------------------
EXTENDS ProcessManager

\* cmd/run.go calls StopAll of the manager that spawned the children only
\* after the context was cancelled (run.go:132, :142).
ShutdownSpec == Init /\ [][Next /\ (SweepBegin => cancelled)]_vars
=============================================================================
