----------------------------- MODULE MCAnswers -----------------------------
(***************************************************************************)
(* Three families of configurations, each with what it is asked: delays at *)
(* every boundary; every combination of statuses and codes of two checks;  *)
(* and a tree with a node of each kind under every list of pointers.       *)
(***************************************************************************)
EXTENDS Answers

Config(defaults, checks, rollup, output) ==
  [defaults |-> defaults, checks |-> checks, rollup |-> rollup, output |-> output]

PlainDefaults == [timeout |-> Unset, onFail |-> Unset, onDegraded |-> Unset]
PlainOutput ==
  [format |-> "json", detail |-> "full", error |-> TRUE, metadata |-> "all", pointers |-> << >>]
PlainCheck ==
  [name |-> "db", types |-> {"readiness"}, timeout |-> Unset, interval |-> Unset,
   treatAs |-> Unset, onFail |-> Unset, onDegraded |-> Unset]

Delays == (-1..2 * MaxTimer + 3) \cup {NaN}

\* The delays of one check; of two checks with one name.
TimerConfigs ==
  {Config([PlainDefaults EXCEPT !.timeout = d],
          <<[PlainCheck EXCEPT !.timeout = t, !.interval = i]>>, Unset, PlainOutput) :
     d \in {Unset, 2, 2 * MaxTimer, NaN}, t \in Delays \cup {Unset}, i \in Delays \cup {Unset}}
  \cup {Config(PlainDefaults, <<PlainCheck, PlainCheck>>, Unset, PlainOutput)}

StatusChecks(name, code, types) ==
  {[PlainCheck EXCEPT !.name = name, !.types = types, !.treatAs = t, !.onFail = f,
                      !.onDegraded = d] :
     t \in {Unset, "degraded"}, f \in {Unset, 500 + code}, d \in {Unset, 200 + code}}

StatusConfigs ==
  {Config([PlainDefaults EXCEPT !.onFail = f, !.onDegraded = d], <<c1, c2>>, r,
          [PlainOutput EXCEPT !.detail = "status"]) :
     f \in {Unset, 504}, d \in {Unset, 207}, r \in {Unset} \cup Status,
     c1 \in StatusChecks("db", 10, {"readiness"}),
     c2 \in UNION {StatusChecks("api", 20, ts) : ts \in {{"readiness"}, {"liveness"}}}}

\* A tree with a node of each kind; one that cannot be read beyond its root.
Tree ==
  << >> :> "record" @@ <<"a">> :> "scalar" @@ <<"toJSON">> :> "scalar"
    @@ <<"b">> :> "record" @@ <<"b", "x">> :> "scalar" @@ <<"b", "y">> :> "scalar"
    @@ <<"c">> :> "opaque"
Trapped == Tree @@ <<"d">> :> "trap" @@ <<"e">> :> "bigint"
Proxy   == << >> :> "trap"

Pointers == {<< >>, <<"a">>, <<"b">>, <<"b", "x">>, <<"b", "y">>, <<"c", "z">>, <<"d", "z">>,
             <<"e">>, <<"toJSON">>}

OutputConfigs ==
  {Config(PlainDefaults, <<PlainCheck>>, Unset, o) :
     o \in {[format |-> f, detail |-> d, error |-> e, metadata |-> "listed", pointers |-> p] :
              f \in {"json", "text"}, d \in {"full"}, e \in BOOLEAN,
              p \in SeqOf(Pointers, 3)}
        \cup
           {[format |-> f, detail |-> d, error |-> e, metadata |-> m, pointers |-> << >>] :
              f \in {"json", "text"}, d \in {"full", "status"}, e \in BOOLEAN,
              m \in {"all", "none"}}}

MCGiven == TimerConfigs \cup StatusConfigs \cup OutputConfigs

\* Delays out of range, other codes, a rollup that never fails, all pointers.
MCOther ==
  {Config([timeout |-> NaN, onFail |-> 505, onDegraded |-> 208],
          [i \in 1..n |-> [PlainCheck EXCEPT !.interval = NaN, !.onFail = 530, !.treatAs = "ok"]],
          "degraded", [PlainOutput EXCEPT !.pointers = <<<<"a">>, <<"b", "x">>>>]) : n \in {1, 2}}

Requests(paths, methods, flags) ==
  [path : paths, method : methods, fetch : flags, draining : flags, closed : flags]
Ready == Requests({"ready"}, {"GET"}, {FALSE})

Result(status, metadata) == [status |-> status, error |-> status = "fail", metadata |-> metadata]

Found(names, statuses, trees) == [names -> {Result(s, m) : s \in statuses, m \in trees}]

Asks(requests, results) == [request : requests, results : results]

MCTraffic(config) ==
  CASE config.output.detail = "status" /\ Len(config.checks) = 2 ->
         Asks(Ready, Found({"db", "api"}, Status, {NoNodes}))
    [] config.output.metadata = "listed" ->
         Asks(Ready, Found({"db"}, {"fail"}, {NoNodes, Tree, Trapped, Proxy}))
    [] config.checks = <<PlainCheck>> /\ config.defaults = PlainDefaults ->
         Asks(Requests({"live", "ready", "startup", "other"}, {"GET", "HEAD", "POST"}, BOOLEAN),
              Found({"db"}, {"ok", "fail"}, {NoNodes, Tree, Trapped}))
    [] OTHER -> {}
=============================================================================
