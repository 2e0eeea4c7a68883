------------------------------ MODULE MCStartup ------------------------------
(* The configurations of the runs: the samples' and one for each case of the parser. *)
EXTENDS Startup, TLC

Param(name, value)       == [kind |-> "param", name |-> name, value |-> value]
Comment(indented, value) == [kind |-> "comment", indented |-> indented, value |-> value]
Include(file)            == [kind |-> "include", file |-> file]
Site(body)               == [kind |-> "server", body |-> body]

Conf(main)              == [files |-> ("main.conf" :> main), mimes |-> <<>>]
With(conf, file, lists) == [conf EXCEPT !.files = @ @@ (file :> lists)]

Needed   == <<Param("root_dir", <<"/www">>), Param("server_module", <<"m.so">>)>>
App(names, ports) == <<Param("server_name", names), Param("listen", ports)>> \o Needed
Certs    == <<Param("tls_certificate", <<"c">>), Param("tls_certificate_key", <<"k">>)>>
TlsApp(names, ports) == App(names, ports \o <<"sp", "tls">>) \o Certs

Sample ==
  [With(Conf(<<Param("threads_max_count", <<"512">>), Param("mimes", <<"mimes.conf">>),
               Include("apps.conf")>>),
        "apps.conf",
        <<Site(App(<<"servertest", "sp", "www.servertest">>, <<"80">>)
               \o <<Comment(FALSE, <<"Comments">>), Comment(FALSE, <<"listen", "sp", "40000", "sp", "tls", ";">>)>>)>>)
   EXCEPT !.mimes = ("mimes.conf" :> <<"html", "blank", "png">>)]

MCConfigs ==
  { Sample,
    \* a value that is given twice, comments with everything in them, an unknown block
    Conf(<<Param("a", <<"x">>), Comment(FALSE, <<"{", "y", ";", "}">>), Param("a", <<"z">>),
           Site(<<Comment(FALSE, <<"}">>)>> \o App(<<"h">>, <<"80", "sp", "40000">>) \o <<Comment(TRUE, <<"z">>)>>)>>),
    Conf(<<Site(App(<<"h">>, <<"80">>) \o <<Comment(TRUE, <<"}">>)>> \o Certs)>>),
    \* includes: within a block, of a missing file, of itself
    With(Conf(<<Include("none.conf"), Site(<<Include("needed.conf")>> \o App(<<"h">>, <<"80">>))>>),
         "needed.conf", Certs \o <<Comment(FALSE, <<"}">>)>>),
    With(Conf(<<Site(<<Include("certs.conf")>> \o App(<<"h">>, <<"80">>)), Param("a", <<"z">>)>>),
         "certs.conf", <<Comment(FALSE, <<"}">>)>> \o Certs),
    Conf(<<Param("a", <<"x">>), Include("main.conf")>>),
    With(Conf(<<Include("apps.conf")>>), "apps.conf", <<Param("a", <<"x">>), Include("main.conf")>>),
    \* names
    Conf(<<Site(App(<<"www.servertest">>, <<"80">>)), Site(App(<<"servertest", "sp">>, <<"80">>))>>),
    Conf(<<Site(App(<<"servertest">>, <<"80">>)), Site(App(<<".servertest", "nl", "www.servertest">>, <<"40000">>))>>),
    Conf(<<Site(App(<<"h">>, <<"80">>)), Site(App(<<"h">>, <<"40000">>)), Site(Needed)>>),
    \* TLS: one port, two, a port of both kinds, no certificate
    Conf(<<Site(TlsApp(<<"h">>, <<"40000">>)), Site(TlsApp(<<"servertest">>, <<"40000">>))>>),
    Conf(<<Site(TlsApp(<<"h">>, <<"80", "sp", "40000">>))>>),
    Conf(<<Site(TlsApp(<<"h">>, <<"80">>)), Site(App(<<"servertest">>, <<"80", "sp", "40000">>))>>),
    Conf(<<Site(App(<<"h">>, <<"80", "sp", "tls">>)), Site(<<Param("listen", <<"40000">>)>> \o TlsApp(<<"servertest">>, <<"80">>))>>),
    \* a number above those of ports
    Conf(<<Site(TlsApp(<<"h">>, <<"5242880", "sp", "40000">>)), Site(TlsApp(<<"servertest">>, <<"80">>))>>),
    \* MIME types
    [Conf(<<Param("mimes", <<"mimes.conf">>), Site(App(<<"h">>, <<"80">>))>>)
     EXCEPT !.mimes = ("mimes.conf" :> <<"html", "comment">>)] }

MCWords ==
  {"server", "include", "main.conf", "apps.conf", "needed.conf", "certs.conf", "none.conf", "mimes.conf", "mimes",
   "threads_max_count", "512", "a", "x", "y", "z", "Comments", "server_name", "h", "servertest",
   "www.servertest", ".servertest", "listen", "80", "40000", "5242880", "tls", "tls_certificate", "c",
   "tls_certificate_key", "k", "root_dir", "/www", "server_module", "m.so"}

MCPortNumber  == ("80" :> 80) @@ ("40000" :> 40000) @@ ("5242880" :> 5242880)
MCDottedNames == ("www.servertest" :> <<"www", "servertest">>) @@ (".servertest" :> <<"", "servertest">>)
=============================================================================
