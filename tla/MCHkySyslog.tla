----------------------------- MODULE MCHkySyslog ----------------------------
(* HkySyslog with configurations that put a new log before the head, between *)
(* two others and last, that need the default log, and that are refused.      *)
EXTENDS HkySyslog

File(name, words) == FileDirective(name, words)
Syslog(args, words) == [to |-> "syslog", file |-> NoFile, args |-> args, words |-> words]
Arg(key, value) == [key |-> key, value |-> value]
Unix == <<Arg("server", "unix")>>
Inet == <<Arg("server", "inet"), Arg("facility", "user"), Arg("nohostname", "")>>

Sound == {
    <<Syslog(Inet, <<"crit">>), Syslog(Unix, <<"info">>)>>,
    <<Syslog(Inet, <<"debug_core", "debug_http">>), File(Stderr, <<"emerg">>)>> }

Unsound == {
    <<File("a", <<"warn", "info">>)>>,
    <<Syslog(<<Arg("server", "unix"), Arg("server", "inet")>>, <<>>)>>,
    <<Syslog(<<Arg("tag", "bad")>>, <<>>)>> }

MCConfs == Sound \cup Unsound
=============================================================================
