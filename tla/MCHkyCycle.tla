---------------------------- MODULE MCHkyCycle ------------------------------
(* Configurations for HkyCycle: one set about descriptors and addresses, one *)
(* about zones, pid files and the retired cycles, one about IPv6 listeners.  *)
EXTENDS HkyCycle

Conf(listen, files, zones, pid) ==
    [listen |-> listen, files |-> files, zones |-> zones, pid |-> pid]
At(addr, backlog) == [addr |-> addr, backlog |-> backlog]
Zone(name, kind) == [name |-> name, kind |-> kind, noreuse |-> FALSE]
Fresh(name, kind) == [name |-> name, kind |-> kind, noreuse |-> TRUE]
Socketed(addr, ignore, backlog) == [addr |-> addr, ignore |-> ignore, backlog |-> backlog]

Families == [a \in {"a", "b", "d", "u", "v6a", "v6b"} |->
    CASE a = "u" -> "unix" [] a \in {"v6a", "v6b"} -> "inet6" [] OTHER -> "inet"]

\* Same addresses in another order, another backlog, one address more or less,
\* a datagram and a unix socket, and one log file or none.
SocketConfs ==
    { Conf(<<At("a", 5), At("b", 5)>>, <<"log">>, <<>>, "p"),
      Conf(<<At("b", 5), At("a", 7)>>, <<"">>, <<>>, "p"),
      Conf(<<At("a", 5), At("u", 5)>>, <<"log">>, <<>>, "p"),
      Conf(<<At("d", 5)>>, <<>>, <<>>, "p") }

\* No inherited socket; two; one that cannot be used and one that can, whose
\* backlog in the kernel is not the one it is taken to have.
SocketTables ==
    { <<>>,
      <<Socketed("a", FALSE, 5), Socketed("u", FALSE, 5)>>,
      <<Socketed("a", TRUE, 5), Socketed("b", FALSE, 9)>> }

\* A zone that stays, one whose size or tag changes, one of size 0, one that
\* asks for noreuse in one configuration and not in another, and two names of
\* the pid file.
ZoneConfs ==
    { Conf(<<>>, <<>>, <<Zone("y", "small"), Zone("z", "fixed")>>, "p"),
      Conf(<<>>, <<>>, <<Zone("z", "fixed"), Zone("y", "large")>>, "q"),
      Conf(<<>>, <<>>, <<Zone("y", "large"), Zone("x", "none")>>, "p"),
      Conf(<<>>, <<>>, <<Zone("y", "small"), Fresh("x", "own")>>, "q"),
      Conf(<<>>, <<>>, <<Zone("x", "own")>>, "q") }

Inet6Confs ==
    { Conf(<<At("v6a", 5), At("v6b", 5)>>, <<>>, <<>>, "p"),
      Conf(<<At("v6b", 5)>>, <<>>, <<>>, "p") }

NoSockets == { <<>> }
=============================================================================
