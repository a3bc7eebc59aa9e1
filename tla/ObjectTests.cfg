SPECIFICATION Spec
INVARIANT TestsPass
