------------------------------- MODULE Startup -------------------------------
(***************************************************************************)
(* What a run of the server does before and after its threads: init with   *)
(* ConfigParser::loadConfig (src/src/server/config/ConfigParser.cpp), the  *)
(* tree of applications (ApplicationTree), initAppsPorts and clear         *)
(* (src/src/server/Server.cpp), over restarts.  ServerCore is what happens *)
(* while pc is "running".                                                  *)
(*                                                                         *)
(* A text is a sequence of tokens: "sp" is white space within a line, "nl" *)
(* the end of a line, ";", "{" and "}" are themselves, "#" is a word that  *)
(* begins with that sign, and every other token is a word.                 *)
(***************************************************************************)
EXTENDS ApplicationTree, Integers, FiniteSets

CONSTANTS
  Configs,    \* what main.conf and the files it names may hold; see MCStartup
  Words,      \* the tokens of a text that are not a sign
  PortNumber, \* the tokens that atoi takes for a number other than 0, and that number
  Ephemeral,  \* the ports from which the kernel picks one for who asks for none
  LittleEndian, \* the byte order of the machine
  DottedNames,\* the tokens that are names with dots, and their parts
  Runs        \* bound: the runs of the server

ASSUME StartupAssumption ==
  /\ Runs \in Nat
  /\ \A token \in DOMAIN DottedNames : DottedNames[token] \in Seq(ToSet(DottedNames[token]))

ASSUME PortsAssumption ==
  /\ IsFiniteSet(DOMAIN PortNumber)
  /\ \A token \in DOMAIN PortNumber : PortNumber[token] \in Int /\ PortNumber[token] # 0

ASSUME MachineAssumption == LittleEndian \in BOOLEAN /\ Ephemeral \subseteq 1 .. 65535

Space  == {"sp", "nl"}
Signs  == Space \union {";", "{", "}", "#"}
Lexeme == Words \union Signs

(* A configuration has the fields files, the statements of each file that   *)
(* can be opened, and mimes, the lines of each file of MIME types.  The     *)
(* value of a parameter begins with a word and has no sign that ends it; a  *)
(* comment goes to the end of its line.                                     *)
Parameters == [kind : {"param"}, name : Words \ {"include"},
               value : { v \in Seq(Lexeme \ {";", "{", "}"}) : v # <<>> => v[1] \notin Space }]
Comments   == [kind : {"comment"}, indented : BOOLEAN, value : Seq(Lexeme \ {"nl"})]
Includes   == [kind : {"include"}, file : Words]
Lines      == Parameters \union Comments \union Includes
Statements == Lines \union [kind : {"server"}, body : Seq(Lines)]

ASSUME ConfigsAssumption ==
  /\ {"server", "include"} \subseteq Words /\ Words \intersect Signs = {}
  /\ \A conf \in Configs :
       /\ "main.conf" \in DOMAIN conf.files
       /\ \A file \in DOMAIN conf.files : conf.files[file] \in Seq(Statements)

VARIABLES
  pc, run, config,
  text, after,            \* str_buf from cur_pos on, and from the end of the server block on
  app, applications,      \* the parameters of the block that is read, of the blocks read so far
  global, lines,          \* the global parameters; what is left of the file of MIME types
  mimesTypes,
  made, tree,             \* the settings of applications, never deleted; apps_tree
  waiting,                \* the applications whose ports are not opened yet
  listeners, tlsData,     \* the sockets that listen, in this run; tls_data
  freed,                  \* for each pair of credentials how often it was freed
  certified               \* history: the applications whose credentials tlsInit loaded in this run

parsed == <<text, after, app, applications>>
known  == <<global, lines, mimesTypes>>
opened == <<waiting, listeners, tlsData, freed, certified>>
vars   == <<pc, run, config, parsed, known, made, tree, opened>>

-----------------------------------------------------------------------------
(* Searches in the text                                                     *)

\* What is not found is behind every position of the string, as std::string::npos is.
Npos(str) == Len(str) + 1
At(str, places) == IF places = {} THEN Npos(str) ELSE Min(places)
FirstOf(str, chars, pos)    == At(str, { i \in pos .. Len(str) : str[i] \in chars })
FirstNotOf(str, chars, pos) == At(str, { i \in pos .. Len(str) : str[i] \notin chars })
Rest(str, pos) == SubSeq(str, pos, Len(str))

\* The first character of the line in which a position is.
LineBegin(str, pos) ==
  LET ends == { i \in 1 .. pos : str[i] = "nl" }
  IN  FirstNotOf(str, {"nl"}, IF ends = {} THEN 1 ELSE Max(ends))

\* The first closing brace whose line does not begin with the sign of a comment.
FaultCommentsClose(str, pos) == FirstOf(str, {"}"}, pos)
findBlockEnd(str, pos) ==
  At(str, { i \in pos .. Len(str) : str[i] = "}" /\ str[LineBegin(str, i)] # "#" })

-----------------------------------------------------------------------------
(* What a file holds                                                        *)

Line(statement) ==
  CASE statement.kind = "param"   -> <<statement.name, "sp">> \o statement.value \o <<";", "nl">>
    [] statement.kind = "comment" -> (IF statement.indented THEN <<"sp", "#", "sp">> ELSE <<"#", "sp">>)
                                     \o statement.value \o <<"nl">>
    [] statement.kind = "include" -> <<"include", "sp", statement.file, ";", "nl">>

Block(statement) ==
  IF statement.kind # "server" THEN Line(statement)
  ELSE <<"server", "sp", "{", "nl">>
       \o FlattenSeq([i \in DOMAIN statement.body |-> Line(statement.body[i])]) \o <<"}", "nl">>

FileText(conf, file) ==
  IF file \notin DOMAIN conf.files THEN <<>>
  ELSE FlattenSeq([i \in DOMAIN conf.files[file] |-> Block(conf.files[file][i])])

\* includeConfigFile: the file is inserted in front of what follows.  White space at the end
\* of the whole text makes no difference and is left out, so that a file that includes
\* itself leads back to a state that was there before.
includeConfigFile(file, rest) ==
  FileText(config, file) \o (IF ToSet(rest) \subseteq Space THEN <<>> ELSE rest)

-----------------------------------------------------------------------------
NoCredentials == [port \in {} |-> 0]
NoParameters  == [name \in {} |-> <<>>]

Init ==
  /\ pc = "init" /\ run = 1 /\ config \in Configs
  /\ text = <<>> /\ after = <<>> /\ app = <<>> /\ applications = <<>>
  /\ global = NoParameters /\ lines = <<>> /\ mimesTypes = {}
  /\ made = <<>> /\ tree = NewTree
  /\ waiting = {} /\ listeners = {} /\ tlsData = NoCredentials /\ freed = <<>>
  /\ certified = {}

\* main.conf is opened, and read as it is at this moment.
LoadConfig ==
  /\ pc = "init"
  /\ \/ pc' = "ended" /\ UNCHANGED <<config, text, applications>>
     \/ /\ config' \in Configs /\ (run = 1 => config' = config)
        /\ pc' = "load" /\ text' = FileText(config', "main.conf") /\ applications' = <<>>
  /\ UNCHANGED <<run, after, app, known, made, tree, opened>>

\* The value between the name of a parameter and its end.
Value(delimiter, end) ==
  SubSeq(text, FirstNotOf(text, Space, delimiter + 1), end - 1)

\* A turn of NONE that finds a parameter, and the turn of PARAM.
LoadParam ==
  LET end       == FirstOf(text, {";"}, 1)
      start     == FirstNotOf(text, Space, 1)
      delimiter == FirstOf(text, Space, start)
      name      == SubSeq(text, start, delimiter - 1)
      rest      == Rest(text, end + 1)
  IN
  /\ pc = "load" /\ end < FirstOf(text, {"{"}, 1)
  /\ \/ /\ delimiter >= end
        /\ text' = rest /\ UNCHANGED global
     \/ /\ delimiter < end /\ text[start] = "#"
        /\ text' = Rest(text, FirstOf(text, {"nl"}, start) + 1) /\ UNCHANGED global
     \/ /\ delimiter < end /\ name = <<"include">>
        /\ text' = includeConfigFile(Value(delimiter, end)[1], rest) /\ UNCHANGED global
     \/ /\ delimiter < end /\ text[start] # "#" /\ name # <<"include">>
        /\ text' = rest
        /\ global' = [key \in DOMAIN global \union {name} |->
                        IF key \in DOMAIN global THEN global[key] ELSE Value(delimiter, end)]
  /\ UNCHANGED <<pc, run, config, after, app, applications, lines, mimesTypes, made, tree,
                 opened>>

\* A turn of NONE that finds a block, and the turn of BLOCK up to the parameters.
LoadBlock ==
  LET block     == FirstOf(text, {"{"}, 1)
      start     == FirstNotOf(text, Space, 1)
      delimiter == FirstOf(text, Space, start)
      name      == SubSeq(text, start, delimiter - 1)
      blockEnd  == findBlockEnd(text, block + 1)
      server    == /\ name = <<"server">> /\ FirstNotOf(text, Space, delimiter) = block
  IN
  /\ pc = "load" /\ block < FirstOf(text, {";"}, 1) /\ FirstOf(text, {";"}, 1) # Npos(text)
  /\ \/ /\ text[start] = "#"
        /\ text' = Rest(text, FirstOf(text, {"nl"}, start)) /\ UNCHANGED <<pc, after, app>>
     \/ /\ text[start] # "#" /\ blockEnd = Npos(text)
        /\ pc' = "ended" /\ UNCHANGED <<text, after, app>>
     \/ /\ text[start] # "#" /\ blockEnd # Npos(text) /\ ~server
        /\ text' = Rest(text, blockEnd + 1) /\ UNCHANGED <<pc, after, app>>
     \/ /\ text[start] # "#" /\ blockEnd # Npos(text) /\ server
        /\ pc' = "server" /\ text' = Rest(text, block + 1) /\ after' = Rest(text, blockEnd + 1)
        /\ app' = <<>>
  /\ UNCHANGED <<run, config, applications, known, made, tree, opened>>

\* A turn of the loop over the parameters of a server.  After an include the end of the
\* block is looked for in the whole text again: the first line of the file goes on the line
\* of the include.
ServerParam ==
  LET end       == FirstOf(text, {";"}, 1)
      start     == FirstNotOf(text, Space, 1)
      delimiter == FirstOf(text, Space, start)
      name      == SubSeq(text, start, delimiter - 1)
      rest      == Rest(text, end + 1)
  IN
  /\ pc = "server" /\ end < Len(text) - Len(after)
  /\ \/ /\ delimiter >= end
        /\ text' = rest /\ UNCHANGED <<app, after>>
     \/ /\ delimiter < end /\ text[start] = "#"
        /\ text' = Rest(text, FirstOf(text, {"nl"}, start) + 1) /\ UNCHANGED <<app, after>>
     \/ /\ delimiter < end /\ name = <<"include">>
        /\ text' = includeConfigFile(Value(delimiter, end)[1], rest)
        /\ LET whole == SubSeq(text, 1, end) \o text'
           IN  after' = Rest(whole, findBlockEnd(whole, end + 1) + 1)
        /\ UNCHANGED app
     \/ /\ delimiter < end /\ text[start] # "#" /\ name # <<"include">>
        /\ text' = rest /\ app' = Append(app, [name |-> name, value |-> Value(delimiter, end)])
        /\ UNCHANGED after
  /\ UNCHANGED <<pc, run, config, applications, known, made, tree, opened>>

ServerEnd ==
  /\ pc = "server" /\ FirstOf(text, {";"}, 1) >= Len(text) - Len(after)
  /\ pc' = "load" /\ text' = after /\ applications' = Append(applications, app)
  /\ UNCHANGED <<run, config, after, app, known, made, tree, opened>>

\* The loop ends where no parameter is left.
LoadEnd ==
  LET key == <<"mimes">>
  IN
  /\ pc = "load" /\ FirstOf(text, {";"}, 1) = Npos(text)
  /\ pc' = "mimes" /\ text' = <<>>
  /\ lines' = IF key \in DOMAIN global /\ global[key][1] \in DOMAIN config.mimes
              THEN config.mimes[global[key][1]] ELSE <<>>
  /\ UNCHANGED <<run, config, after, app, applications, global, mimesTypes, made, tree, opened>>

-----------------------------------------------------------------------------
(* parseMimes, a line a step                                                *)

FaultBlankStays ==
  /\ pc = "mimes" /\ lines # <<>> /\ Head(lines) # "blank"
  /\ lines' = Tail(lines) /\ mimesTypes' = mimesTypes \union {Head(lines)}
  /\ UNCHANGED <<pc, run, config, parsed, global, made, tree, opened>>

\* A line of one word or none is passed over.  At a comment line of more words the state
\* stays NONE and the position where it is.
ParseMimes ==
  /\ pc = "mimes" /\ lines # <<>>
  /\ \/ Head(lines) = "blank" /\ lines' = Tail(lines) /\ UNCHANGED mimesTypes
     \/ Head(lines) = "comment" /\ UNCHANGED <<lines, mimesTypes>>
     \/ /\ Head(lines) \notin {"blank", "comment"}
        /\ lines' = Tail(lines) /\ mimesTypes' = mimesTypes \union {Head(lines)}
  /\ UNCHANGED <<pc, run, config, parsed, global, made, tree, opened>>

ParseMimesEnd ==
  /\ pc = "mimes" /\ lines = <<>> /\ pc' = "apps"
  /\ UNCHANGED <<run, config, parsed, known, made, tree, opened>>

-----------------------------------------------------------------------------
(* addApplication, for one block after the other                             *)

Values(params, key) ==
  LET entries == SelectSeq(params, LAMBDA p : p.name = <<key>>)
  IN  [i \in DOMAIN entries |-> entries[i].value]
Has(params, key) == Values(params, key) # <<>>
Tokens(value)    == { value[i] : i \in DOMAIN value }
NameParts(token) == IF token \in DOMAIN DottedNames THEN DottedNames[token] ELSE <<token>>

ListedPorts(params, tls) ==
  LET list == Values(params, "listen")
      chosen == { i \in DOMAIN list : ("tls" \in Tokens(list[i])) = tls }
  IN  { PortNumber[token] : token \in DOMAIN PortNumber \cap UNION { Tokens(list[i]) : i \in chosen } }

\* Without a certificate or a key the TLS ports are dropped.
Settings(params) ==
  [ports |-> ListedPorts(params, FALSE),
   tls   |-> IF Has(params, "tls_certificate") /\ Has(params, "tls_certificate_key")
             THEN ListedPorts(params, TRUE) ELSE {},
   run   |-> run, server |-> params]

HostNames(value) ==
  LET words == Tokens(value) \ Space
  IN  IF words = {} THEN { << "" >> } ELSE { NameParts(word) : word \in words }

\* After a name that is followed by white space substr is asked for a position behind the
\* end and throws, which nothing catches.
AddApplication ==
  LET params == Head(applications)
      name   == Values(params, "server_name")[1]
      whole  == \A key \in {"listen", "root_dir", "server_module"} : Has(params, key)
  IN
  /\ pc = "apps" /\ applications # <<>>
  /\ \/ /\ ~Has(params, "server_name")
        /\ applications' = Tail(applications) /\ UNCHANGED <<pc, made, tree>>
     \/ /\ Has(params, "server_name") /\ name # <<>> /\ Last(name) \in Space
        /\ pc' = "terminated" /\ UNCHANGED <<applications, made, tree>>
     \/ \* A parameter is missing, or the module or its initialization fails.
        /\ Has(params, "server_name") /\ (name = <<>> \/ Last(name) \notin Space)
        /\ applications' = Tail(applications) /\ UNCHANGED <<pc, made, tree>>
     \/ /\ Has(params, "server_name") /\ (name = <<>> \/ Last(name) \notin Space) /\ whole
        /\ applications' = Tail(applications)
        /\ made' = Append(made, Settings(params))
        /\ tree' = addApplication(tree, HostNames(name), Len(made'))
        /\ UNCHANGED pc
  /\ UNCHANGED <<run, config, text, after, app, known, opened>>

AddApplicationsEnd ==
  /\ pc = "apps" /\ applications = <<>>
  /\ pc' = "ports" /\ waiting' = collectApplicationSettings(tree)
  /\ UNCHANGED <<run, config, parsed, known, made, tree, listeners, tlsData, freed, certified>>

-----------------------------------------------------------------------------
(* initAppsPorts, for the applications in any order; tlsInit and tryBindPort *)

\* What the kernel reads in sin_port, where Socket::bind puts htonl of the number: the
\* upper half of the number on a little-endian machine, and so none for every port.
SinPort(port) == IF LittleEndian THEN (port \div 65536) % 65536 ELSE port % 65536

\* A socket that listens has the port it was opened for, and the one it was given.
BoundTo(port) ==
  [port : {port}, real : IF SinPort(port) = 0 THEN Ephemeral ELSE {SinPort(port)}]

\* tryBindPort for each of some ports: what it may add to the listeners that are there.
\* open, bind and listen may fail.
Bindable(ports, taken) ==
  { open \in SUBSET UNION { BoundTo(port) : port \in ports } :
      /\ \A l \in open, k \in taken : l.port # k.port /\ l.real # k.real
      /\ \A l, k \in open : l # k => l.port # k.port /\ l.real # k.real }

FaultFailedBindIsSecure ==
  /\ pc = "ports"
  /\ \E a \in waiting : \E opens \in Bindable(made[a].tls, listeners) :
       /\ waiting' = waiting \ {a}
       /\ listeners' = listeners \union opens
       /\ freed' = Append(freed, 0) /\ certified' = certified \union {a}
       /\ tlsData' = [port \in DOMAIN tlsData \union made[a].tls |->
                        IF port \in DOMAIN tlsData THEN tlsData[port] ELSE Len(freed')]
  /\ UNCHANGED <<pc, run, config, parsed, known, made, tree>>

\* One pair of credentials is stored under each TLS port that could be opened; emplace
\* keeps what is there.
InitAppPorts ==
  /\ pc = "ports"
  /\ \E a \in waiting : \E tls \in {FALSE, made[a].tls # {}} :
     \E secure \in Bindable(IF tls THEN made[a].tls ELSE {}, listeners) :
     \E plain \in Bindable(made[a].ports, listeners \union secure) :
       /\ waiting' = waiting \ {a}
       /\ listeners' = listeners \union secure \union plain
       /\ freed' = IF tls THEN Append(freed, 0) ELSE freed
       /\ certified' = IF tls THEN certified \union {a} ELSE certified
       /\ tlsData' = [port \in DOMAIN tlsData \union { l.port : l \in secure } |->
                        IF port \in DOMAIN tlsData THEN tlsData[port] ELSE Len(freed')]
  /\ UNCHANGED <<pc, run, config, parsed, known, made, tree>>

\* threadRequestCycle looks the port up that getsockname gives it.
SpeaksTls(l) == l.real \in DOMAIN tlsData

\* run goes on to its threads.
Start ==
  /\ pc = "ports" /\ waiting = {} /\ listeners # {}
  /\ pc' = "running"
  /\ UNCHANGED <<run, config, parsed, known, made, tree, opened>>

\* clear: what tls_data holds is freed and stays there; the tree stays too.
Free ==
  freed' = [c \in DOMAIN freed |-> freed[c] + Cardinality({ p \in DOMAIN tlsData : tlsData[p] = c })]

Clear ==
  /\ \/ pc = "running" /\ pc' \in {"cleared", "ended"}
     \/ pc = "ports" /\ waiting = {} /\ listeners = {} /\ pc' = "ended"
  /\ Free /\ listeners' = {} /\ certified' = {} /\ global' = NoParameters
  /\ UNCHANGED <<run, config, parsed, lines, mimesTypes, made, tree, waiting, tlsData>>

\* command_start runs the server again after SIGUSR1 (bound: Runs).
Restart ==
  /\ pc = "cleared" /\ run < Runs
  /\ pc' = "init" /\ run' = run + 1
  /\ UNCHANGED <<config, parsed, known, made, tree, opened>>

Stopped ==
  /\ pc \in {"ended", "terminated"} \/ (pc = "cleared" /\ run = Runs)
  /\ UNCHANGED vars

Server ==
  \/ LoadConfig \/ LoadParam \/ LoadBlock \/ ServerParam \/ ServerEnd \/ LoadEnd
  \/ ParseMimes \/ ParseMimesEnd \/ AddApplication \/ AddApplicationsEnd
  \/ InitAppPorts \/ Start \/ Clear \/ Restart

Next == Server \/ Stopped

\* One thread that waits for nobody.
Spec == Init /\ [][Next]_vars /\ WF_vars(Server)

-----------------------------------------------------------------------------
(* Properties                                                               *)

\* What a configuration says, whatever the parser makes of it: its statements with the
\* included ones in their places, without the comments.
Included(conf, statement) ==
  IF statement.kind = "include" /\ statement.file \in DOMAIN conf.files
  THEN conf.files[statement.file] ELSE <<>>
Given(conf, statement) ==
  IF statement.kind = "include" THEN Included(conf, statement) ELSE << statement >>
Expand(conf, statements) ==
  FlattenSeq([i \in DOMAIN statements |-> Given(conf, statements[i])])
ParamOf(statement) ==
  IF statement.kind = "param" THEN <<[name |-> <<statement.name>>, value |-> statement.value]>> ELSE <<>>
Params(statements) == FlattenSeq([i \in DOMAIN statements |-> ParamOf(statements[i])])
ServerOf(conf, statement) ==
  IF statement.kind = "server" THEN <<Params(Expand(conf, statement.body))>> ELSE <<>>
ServersOf(conf, statements) == FlattenSeq([i \in DOMAIN statements |-> ServerOf(conf, statements[i])])
Servers(conf) == ServersOf(conf, Expand(conf, conf.files["main.conf"]))

Globals(conf) == Params(Expand(conf, conf.files["main.conf"]))

\* What the parser takes for more than a comment: an indented one with a brace ends its block.
Braced(line)      == line.kind = "comment" /\ "}" \in Tokens(line.value)
Uncommented(line) == Braced(line) /\ line.indented

\* The statements of a file, those of them that are included, and what a block may hold.
\* Includes go one level deep, a block without a parameter may be taken for the end, and in
\* a block the first line of a file is no line of its own.
Plain(conf, statement) ==
  LET inserted == Included(conf, statement)
  IN  \A i \in DOMAIN inserted : inserted[i].kind # "include"
Inner(conf, line) ==
  /\ ~Uncommented(line)
  /\ LET inserted == Included(conf, line)
     IN  /\ \A i \in DOMAIN inserted : inserted[i] \in Parameters \union Comments /\ ~Uncommented(inserted[i])
         /\ inserted # <<>> => ~Braced(inserted[1])
Closed(conf, body) ==
  /\ \E k \in DOMAIN body : body[k].kind # "comment"
  /\ \A k \in DOMAIN body : Inner(conf, body[k])
Readable(conf) ==
  \A file \in DOMAIN conf.files : \A i \in DOMAIN conf.files[file] :
    LET statement == conf.files[file][i]
    IN  Plain(conf, statement) /\ (statement.kind = "server" => Closed(conf, statement.body))

Hosts(a) == HostNames(Values(made[a].server, "server_name")[1])

\* A name without wildcards.
NoWildcard(host) == \A i \in DOMAIN host : host[i] \notin {"", "*"}

\* What the parser keeps of the files: the blocks with all their parameters, the first value
\* of each global one, nothing out of a comment.
TextIsKept ==
  pc = "mimes" /\ Readable(config) =>
    /\ applications = Servers(config)
    /\ DOMAIN global = { Globals(config)[i].name : i \in DOMAIN Globals(config) }
    /\ \A i \in DOMAIN Globals(config) :
         (\A k \in 1 .. i - 1 : Globals(config)[k].name # Globals(config)[i].name)
         => global[Globals(config)[i].name] = Globals(config)[i].value

\* Every application that could be loaded is found under each of its names without a
\* wildcard -- or a later one with that name is -- in every run, whatever earlier runs
\* left in the tree.
HostsAreFound ==
  \A a \in DOMAIN made : \A host \in Hosts(a) :
    NoWildcard(host) => find(tree, host) >= a /\ host \in Hosts(find(tree, host))

\* What the server knows after loading is what its files say.
ConfigurationIsKept == TextIsKept /\ HostsAreFound

\* tls_data has the port of a listener exactly when an application with loaded credentials
\* lists it under tls, and these credentials are valid and freed once.  A worker speaks TLS
\* exactly on the listeners whose real port is such a port: bind gives a port of its choice
\* on a little-endian machine, so that no listener with a TLS port needs to be one of them.
\* Not so when two applications disagree about a port, when one has several TLS ports, or
\* from a restart on: clear leaves the pairs that it frees in tls_data.
CredentialsFitPorts ==
  LET first    == \A a \in DOMAIN made : made[a].run = run \/ made[a].tls = {}
      agreed   == \A a, b \in DOMAIN made : made[a].tls \cap made[b].ports = {}
      onePort  == \A a \in DOMAIN made : Cardinality(made[a].tls) <= 1
      Listed(port) == \E a \in certified : port \in made[a].tls
  IN  first =>
        /\ pc \in {"ports", "running"} =>
             /\ DOMAIN tlsData \subseteq { l.port : l \in listeners }
             /\ \A port \in DOMAIN tlsData : freed[tlsData[port]] = 0
        /\ pc = "running" /\ agreed => \A l \in listeners :
             /\ l.port \in DOMAIN tlsData <=> Listed(l.port)
             /\ SpeaksTls(l) <=> \E k \in listeners : k.port = l.real /\ Listed(k.port)
             /\ SinPort(l.port) = l.port => (SpeaksTls(l) <=> Listed(l.port))
        /\ onePort => \A c \in DOMAIN freed : freed[c] <= 1

\* Loading ends: each include and each comment is passed in the end.  Not so with files that
\* include themselves or each other, nor with a comment line in the file of MIME types.
IncludedBy(conf, file) ==
  LET statements == conf.files[file]
      inner      == UNION { Tokens(s.body) : s \in { t \in Tokens(statements) : t.kind = "server" } }
  IN  { s.file : s \in { t \in Tokens(statements) \union inner : t.kind = "include" } }
Ending(conf) ==
  /\ \A files \in (SUBSET DOMAIN conf.files) \ {{}} :
       \E file \in files : IncludedBy(conf, file) \cap files = {}
  /\ \A file \in DOMAIN conf.mimes : "comment" \notin Tokens(conf.mimes[file])
Loading == {"load", "server", "mimes", "apps", "ports"}
LoadingEnds == (pc \in Loading /\ Ending(config)) ~> (pc \notin Loading)
=============================================================================
