--------------------------- MODULE MCVmLifecycle ---------------------------
EXTENDS VmLifecycle

CONSTANTS v0, v1, v2, b0, b1, s1, i1, r1, r2, r3

MCVmOf == [x \in Backups \cup Snapshots |-> v0]
\* v1 and v2 share a pool; v0 has one of its own.
MCPoolOf == [v \in Vms |-> IF v = v0 THEN "P" ELSE "Q"]

A(op, v, x) == [op |-> op, vm |-> v, item |-> x]

OnVm(v) == {A(op, v, None) : op \in Queueing \ (Rows \cup {"create", "restore", "deleteSnapshot", "rollback"})}

MCCallsOf ==
    [r \in Requests |->
        IF r = r1 THEN {A("create", v1, None), A("backup", v0, b1), A("snapshot", v0, s1), A("removeIp", v0, i1),
                        A("forceStop", v0, None)}
        ELSE IF r = r2 THEN {A("create", v2, None), A("deleteBackup", v0, b0), A("lock", v0, b0), A("deleteBackup", v0, b1),
                        A("forceDelete", v0, None)}
        ELSE OnVm(v1) \cup OnVm(v0) \cup {A("restore", v0, b0), A("deleteSnapshot", v0, s1),
              A("rollback", v0, s1), A("addIp", v0, i1), A("unlock", v0, b0)}]
=============================================================================
