------------------------------ MODULE MCMounts ------------------------------
(* Two disks, one of them mounted where the path has a space and Chinese   *)
(* characters.                                                             *)
EXTENDS SlowReads

MCMountable == {Line("sda", 0, TRUE), Line("sdb", 1, TRUE)}
MCSize == [d \in {"sda", "sdb"} |-> 2]
MCAddresses == [i \in {"lo"} |-> {"a"}]
=============================================================================
