SPECIFICATION Spec
CONSTANTS
    Servers = {s1, s2}
    Edits = {e1, e2}
    Job = Job
    Null = Null
SYMMETRY Symmetry
INVARIANTS TypeOK CronExact
