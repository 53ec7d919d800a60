----------------------------- MODULE MCCommands -----------------------------
\* The commands around deploy and down: receipts written with crashes (task
\* "crash") and read while others write ("read"), three paths and two deploys;
\* the commands that look at three services while something changes twice
\* ("look"); import and init over small Compose projects ("import"); and what a
\* deploy reads while somebody edits its files ("inputs").  A behaviour is about
\* one of them: they share no state.
EXTENDS ReceiptStore, Observe, MCImport, MCInputs, TLC

CONSTANTS w1, w2, kept, stray, sha1, sha2, web, api, db, me, them, shop, debug, left, r1

VARIABLE task

-----------------------------------------------------------------------------
WebRecord(container, env) ==
  [service |-> web, name |-> web, image |-> web, container |-> container,
   env |-> env, mounts |-> Unset]
ApiRecord == [service |-> api, name |-> api, image |-> api, container |-> me,
        env |-> <<>>, mounts |-> <<shop>>]

Receipt(time, status, digest, services) ==
  [version |-> 1, time |-> time, path |-> shop, project |-> shop, digest |-> digest,
   status |-> status, profiles |-> <<>>, services |-> services,
   failure |-> IF status = "failed"
               THEN [service |-> web, class |-> "timeout", probe |-> "http"] ELSE NoFailure]

\* A receipt of an older release: no status, no digest, no env.
Legacy == Receipt(1, Unset, Unset, <<WebRecord(me, Unset)>>)
Ok == [Receipt(3, "ok", sha1, <<ApiRecord, WebRecord(me, <<web, api>>)>>) EXCEPT !.profiles = <<debug, shop>>]

MCReceipts ==
  (w1 :> {Receipt(2, "ok", sha1, <<WebRecord(me, <<web>>)>>),
          Receipt(4, "failed", sha2, <<WebRecord(me, <<web>>)>>)}) @@
  (w2 :> {[Ok EXCEPT !.profiles = <<shop, debug>>, !.services = <<WebRecord(them, <<api, web>>), ApiRecord>>],
          [Ok EXCEPT !.project = Unset]})

In(file, content) == [file |-> file, content |-> content]
MCFound == {3 :> In(kept, Legacy), (0 :> In(kept, Ok)) @@ (3 :> In(stray, Junk))}
MCOwnPath == (w1 :> 1) @@ (w2 :> 2)

Request(command, current, other, status, store) ==
  [command |-> command, current |-> current, other |-> other, status |-> status, store |-> store]
MCRequests ==
  {Request("list", Unset, Unset, "ok", FALSE), Request("last-ok", Unset, Unset, Unset, FALSE),
   Request("handoff", 1, Unset, Unset, TRUE), Request("read", 1, Unset, Unset, FALSE),
   Request("vs-last-ok", 2, Unset, Unset, FALSE), Request("pair", 2, 1, Unset, FALSE),
   Request("diff", 1, 3, Unset, FALSE)}

-----------------------------------------------------------------------------
MCService == {web, api, db}
MCName == MCService \cup {left}
MCCName == [s \in MCService |-> s]
MCSorted == (api :> 1) @@ (db :> 2) @@ (web :> 3)

\* web waits for api; db only runs with the profile debug.
Shop ==
  [services |-> MCService,
   deps     |-> (web :> {[service |-> api, condition |-> "healthy"]}) @@ (api :> {}) @@ (db :> {}),
   profiles |-> (web :> {}) @@ (api :> {}) @@ (db :> {debug}),
   probed   |-> {web, api}]
MCViewed == {Shop}

Question(command, profiles, roots, dependents, flag) ==
  [command |-> command, profiles |-> profiles, roots |-> roots, dependents |-> dependents,
   probes |-> command = "onboard" \/ flag, json |-> command # "explain" \/ ~ flag]
MCQuestions ==
  {Question("diff", {}, {}, FALSE, FALSE), Question("diff", {debug}, {api}, TRUE, FALSE),
   Question("ps", {debug}, {}, FALSE, FALSE), Question("logs", {}, {}, FALSE, FALSE),
   Question("explain", {}, {}, FALSE, FALSE), Question("explain", {debug}, {api, db}, FALSE, TRUE),
   Question("onboard", {}, {}, FALSE, FALSE), Question("onboard", {}, {db}, FALSE, FALSE)}

A(state, healthy) == [by |-> r1, state |-> state, healthy |-> healthy, uses |-> {}]
There(x) == [n \in MCName |-> IF n \in DOMAIN x THEN x[n] ELSE Absent]
Serving == [n \in MCService |-> A("running", TRUE)]
MCInitially ==
  {There(<<>>), There(Serving), There(Serving @@ (left :> A("exited", FALSE))),
   There([Serving EXCEPT ![api] = A("running", FALSE)]),
   There([Serving EXCEPT ![web] = A("exited", FALSE)]),
   There((web :> A("created", FALSE)) @@ (api :> A("running", TRUE))),
   There((api :> A("running", FALSE)) @@ (db :> A("running", TRUE)))}

-----------------------------------------------------------------------------
\* The state of the tasks a behaviour is not about.
NoStore == StoreInit /\ files[0] = NoFile
NoLook == ObserveInit /\ up /\ ctr = There(<<>>) /\ installed
NoImport == ImportInit /\ order = Ordered("init", "template", TRUE) /\ target = None
                       /\ project.dockerfile
NoInputs == InputsInit /\ arg = Nothing /\ contractFile = Garbled
                       /\ envDisk = [p \in EnvPath |-> Nothing]

Init ==
  /\ task \in {"crash", "read", "look", "import", "inputs"}
  /\ IF task \in {"crash", "read"} THEN StoreInit ELSE NoStore
  /\ IF task = "look" THEN ObserveInit ELSE NoLook
  /\ IF task = "inputs" THEN InputsInit ELSE NoInputs
  /\ IF task = "import" THEN ImportInit ELSE NoImport

Next ==
  /\ UNCHANGED task
  /\ \/ /\ task \in {"crash", "read"}
        /\ \/ \E w \in Writer : Write(w)
           \/ \E p \in Deleted : Delete(p)
           \/ task = "read" /\ \E r \in Reader : Read(r)
           \/ task = "crash" /\ Fault
        /\ UNCHANGED <<observeVars, importVars, inputVars>>
     \/ /\ task = "look"
        /\ ObserveNext
        /\ UNCHANGED <<vars, importVars, inputVars>>
     \/ /\ task = "import"
        /\ ImportNext
        /\ UNCHANGED <<vars, observeVars, inputVars>>
     \/ /\ task = "inputs"
        /\ InputsNext
        /\ UNCHANGED <<vars, observeVars, importVars>>

Spec == Init /\ [][Next]_<<task, vars, observeVars, importVars, inputVars>>
             /\ WF_observeVars(task = "look" /\ Observation)

\* The variables of the task keep their types; the others keep their values.
TypeOK == CASE task \in {"crash", "read"} -> StoreTypeOK
            [] task = "look" -> ObserveTypeOK
            [] task = "import" -> ImportTypeOK
            [] task = "inputs" -> InputsTypeOK
=============================================================================
