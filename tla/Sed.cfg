SPECIFICATION SedSpec
CONSTANT Invocations <- AllJobs
INVARIANT ScriptsRead OutputExact InPlaceKeeps
PROPERTY AppendsBeforeNextLine
CHECK_DEADLOCK FALSE
