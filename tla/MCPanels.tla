------------------------------ MODULE MCPanels ------------------------------
(* Panels for TLC. *)
EXTENDS Panels

Size(w, h) == [w |-> w, h |-> h]
MCSizes == {Size(132, 30), Size(100, 36), Size(80, 24), Size(40, 10)}

MCMachines == {"server", "desktop", "container"}
Highlight(width, tells) == [width |-> width, tells |-> tells]
Process(pid) == [pid |-> pid, since |-> 1]
Server ==
    [highlights |-> <<Highlight(20, Thing("process", "p1", 1)),
                      Highlight(30, Metric("sys.highlights")), Highlight(40, Named("mount", "/")),
                      Highlight(25, Named("interface", "eth0")), Highlight(22, Named("gpu", "nv0"))>>,
     cores |-> 12, heatmap |-> FALSE, unread |-> {"cpu.temp"}, limited |-> FALSE,
     diagnostics |-> -1,
     gpus |-> <<[name |-> "card0", has |-> {"clock", "range", "estimated"}],
                [name |-> "nv0",
                 has |-> {"temp", "power", "clock", "memory clock", "fan", "pstate", "pcie"}]>>,
     mounts |-> <<"/", "/boot", "/home", "/srv", "/tmp", "/var">>,
     disks |-> <<[name |-> "sda", unread |-> {}], [name |-> "sdb", unread |-> {"disk.iops"}]>>,
     ifaces |-> <<[name |-> "lo"], [name |-> "eth0"], [name |-> "eth1"]>>,
     procs |-> <<Process("p1"), Process("p2"), Process("p3"), Process("p4"), Process("p5")>>,
     unlocked |-> TRUE, users |-> <<2, 1, 0, 1>>, detail |-> FALSE]
MCMake ==
    [m \in MCMachines |->
        CASE m = "server" -> Server
          [] m = "desktop" -> [Server EXCEPT !.heatmap = TRUE, !.detail = TRUE,
                                             !.ifaces = <<[name |-> "lo"]>>]
          [] m = "container" ->
              [Server EXCEPT !.highlights = <<>>, !.cores = 2, !.limited = TRUE,
                             !.diagnostics = 4, !.gpus = <<>>, !.mounts = <<>>,
                             !.disks = <<>>, !.ifaces = <<[name |-> "lo"]>>,
                             !.procs = SubSeq(@, 1, 3), !.unlocked = FALSE,
                             !.users = <<0, 0, 0, 0>>]]
=============================================================================
