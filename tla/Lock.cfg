\* Four threads, each free to read or write at every call.
SPECIFICATION FairSpec
CONSTANT Thread = {t1, t2, t3, t4}
INVARIANTS TypeOK Exclusion CountsHonest NoLostWakeup
PROPERTIES WritersNotStarved ReadersFollow
