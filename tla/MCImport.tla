------------------------------ MODULE MCImport ------------------------------
\* Compose projects of four files, with chains of at most three (16 in the
\* code), and every command that makes a contract.
EXTENDS ImportReference

MCWellKnown == <<"main", "other">>
MCNameOrder == <<"api", "db", "queue", "web">>
MCDirOf == [main |-> <<"app">>, other |-> <<"app">>, sub |-> <<"app", "sub">>,
            deep |-> <<"app", "sub">>]

Path_(f) == [kind |-> "path", file |-> f]
Remote == [kind |-> "url", file |-> None]
WithEnvFile == [kind |-> "env_file", file |-> None]
Extending(f, s) == [file |-> f, service |-> s]
On(s, condition) == [service |-> s, condition |-> condition]

Service_(image, extends) ==
  [extends |-> extends, image |-> image, ports |-> <<>>, environment |-> <<>>, profiles |-> {},
   depends_on |-> <<>>, networks |-> {}, expose |-> <<>>]

Web(extends) ==
  [Service_("web", extends) EXCEPT !.ports = <<80>>, !.environment = [PORT |-> 80],
     !.depends_on = <<On("db", "service_healthy"), On("api", "started")>>]
Api(extends) ==
  [Service_(None, extends) EXCEPT !.ports = <<81>>, !.environment = [PORT |-> 81, MODE |-> 1],
     !.profiles = {"debug"}, !.depends_on = <<On("db", "service_started")>>]
Db == [Service_("db", NoExtends) EXCEPT !.ports = <<82>>, !.networks = {"back"}]
Db2 == [Service_("db2", NoExtends) EXCEPT !.environment = [MODE |-> 2], !.expose = <<82>>]

Source(include, services, networks) ==
  [include |-> include, services |-> services, networks |-> networks]

MainServices ==
  {[web |-> Web(Extending(None, "api"))],
   [web |-> Web(Extending("sub", "db")), api |-> Api(Extending(None, "web"))],
   [web |-> Web(Extending(None, "api")), api |-> Api(Extending(None, "web"))],
   [web |-> Web(Extending(None, "api")), api |-> Api(Extending("other", "api"))],
   [web |-> Web(Extending("other", "api")), api |-> Service_(None, NoExtends)],
   [web |-> Web(Extending("other", "api")), api |-> Api(Extending(None, "web"))],
   [web |-> [Web(NoExtends) EXCEPT !.depends_on = <<On("db", "completed")>>]]}
OtherServices == {[api |-> Api(Extending("sub", "db")), db |-> Db2], [api |-> Api(Extending(None, "db"))]}

\* Every include graph over these lists, with services that do not matter.
Graphs ==
  {[main |-> Source(m, [web |-> Web(NoExtends)], {}), other |-> Source(o, [db |-> Db2], {}),
    sub  |-> Source(s, [db |-> Db], {"back"}), deep |-> d] :
     m \in {<<>>, <<Path_("other")>>, <<Path_("other"), Path_("sub")>>,
            <<Path_("sub"), Path_("other")>>, <<Path_("other"), Remote>>},
     o \in {<<>>, <<Path_("sub")>>, <<Path_("main")>>, <<Path_("other")>>},
     s \in {<<>>, <<Path_("deep")>>, <<Path_("other")>>},
     d \in {None, Malformed, Source(<<>>, [api |-> Service_("api", NoExtends)], {}),
            Source(<<Path_("sub")>>, <<>>, {})}}

\* Every way services are spread over three files and extend each other.
Families ==
  {[main |-> Source(m, services, nets), other |-> Source(o, api, {}),
    sub  |-> Source(<<>>, [db |-> Db, queue |-> Service_("queue", Extending(None, "db"))], {"back"}),
    deep |-> None] :
     services \in MainServices, api \in OtherServices, nets \in {{}, {"default"}, {"front"}},
     m \in {<<>>, <<Path_("other"), Path_("sub")>>, <<Path_("sub"), Path_("other")>>},
     o \in {<<>>, <<Path_("sub")>>}}

\* Services that name files they must not, or that cannot be read, directly and
\* through others; and include entries that are refused while a file is decoded.
Detours ==
  {[main |-> Source(m, [web |-> Web(extends)], {}),
    other |-> Source(<<>>, [api |-> Api(Extending("deep", "api"))], {}),
    sub  |-> Source(<<>>, [db |-> Db, queue |-> Service_("queue", Extending("main", "web"))], {"back"}),
    deep |-> d] :
     m \in {<<>>, <<Path_("sub")>>, <<Path_("deep")>>, <<Path_("other"), WithEnvFile>>},
     extends \in {NoExtends, Extending(Elsewhere, "web"), Extending("other", "api"),
                 Extending("sub", "queue"), Extending("sub", "db")},
     d \in {None, Malformed, Source(<<WithEnvFile>>, <<>>, {}),
            Source(<<>>, [api |-> Service_("api", Extending("other", "api"))], {})}}

MCProjects ==
  [files : Graphs \cup Families \cup Detours, dockerfile : {FALSE}] \cup
  {[files |-> [f \in DOMAIN MCDirOf |-> None], dockerfile |-> there] : there \in BOOLEAN}

Ordered(command, source, output) == [command |-> command, source |-> source, output |-> output]
MCOrders ==
  {Ordered("import", "main", TRUE), Ordered("import", "other", FALSE),
   Ordered("init", "codebase", TRUE), Ordered("init", "template", TRUE),
   Ordered("init", "dockerfile", TRUE)}
=============================================================================
