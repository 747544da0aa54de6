\* All strings of up to three sample bytes, literals of up to two pieces, and
\* texts of up to three parts.  A function that has returned stops.
SPECIFICATION Spec
CONSTANT Jobs <- MCJobs
INVARIANTS StaysInside RoundTrip MeansWhatIsWritten MinifyKeepsTheRest
CHECK_DEADLOCK FALSE
