------------------------------ MODULE MCWrapper ------------------------------
EXTENDS Wrapper

MCParts == <<"git", "files", "tarball", "mounts">>
Mishaps(fail, stop, request) == [fail |-> fail, stop |-> stop, request |-> request]
\* Failures of the store or the fetch, beside a signal or a kill; a signal and a kill, or an
\* unreadable request.
MCMishaps == {Mishaps(2, 1, 0), Mishaps(1, 0, 0), Mishaps(0, 2, 1)}
\* Nothing fails: the tool's own tries are enough.
NoMishaps == Mishaps(0, 0, 0)
Undisturbed == {NoMishaps}
=============================================================================
