------------------------------ MODULE Answers ------------------------------
(***************************************************************************)
(* A kit from the configuration it is given to the answers it gives: the   *)
(* constructor of HealthKit, its routes, the HTTP status of a probe and    *)
(* the fetch handler (healthkit.ts, rollup.ts, http.ts).  How checks run   *)
(* is in HealthKit; here a request finds their results.                    *)
(*                                                                         *)
(* A configuration has the defaults, a sequence of checks, the rollup and  *)
(* the output.  The application goes on owning the objects it consists of, *)
(* and may change them at any time.                                        *)
(*                                                                         *)
(* Delays are counted in halves of a millisecond, as fractions matter.     *)
(***************************************************************************)
EXTENDS Redaction, Integers

CONSTANTS
  Given,        \* the configurations
  Other,        \* those whose values the application may assign afterwards
  Traffic(_),   \* the requests made to a kit with a configuration, as records
                \* [request, results]
  MaxTimer,     \* MAX_TIMER_MS
  DefaultTimer, \* DEFAULT_TIMEOUTMS
  Unset,        \* a property that is undefined
  NaN           \* a number that is none

\* The types of the source (types.ts); a delay is any number, or undefined.
Status    == {"ok", "degraded", "fail"}
CheckType == {"liveness", "readiness", "startup"}
Delay     == Int \cup {Unset, NaN}
Code      == Nat \cup {Unset}

DefaultsConfig == [timeout : Delay, onFail : Code, onDegraded : Code]
CheckConfig ==
  [name : STRING, types : SUBSET CheckType, timeout : Delay, interval : Delay,
   treatAs : Status \cup {Unset}, onFail : Code, onDegraded : Code]
OutputConfig ==
  [format : {"json", "text"}, detail : {"full", "status"}, error : BOOLEAN,
   metadata : {"all", "none", "listed"}, pointers : Seq(Seq(STRING))]
HealthkitConfig ==
  [defaults : DefaultsConfig, checks : Seq(CheckConfig), rollup : Status \cup {Unset},
   output : OutputConfig]

AgnosticRequest ==
  [path : STRING, method : STRING, fetch : BOOLEAN, draining : BOOLEAN, closed : BOOLEAN]

IsResult(result) ==
  /\ DOMAIN result = {"status", "error", "metadata"}
  /\ result.status \in Status /\ result.error \in BOOLEAN
  /\ DOMAIN result.metadata \subseteq Seq(STRING)

ASSUME AnswersAssumption ==
  /\ MaxTimer \in Nat /\ DefaultTimer \in 1 .. MaxTimer
  /\ Unset \notin Int /\ NaN \notin Int /\ Unset # NaN
  /\ Given \subseteq HealthkitConfig /\ Other \subseteq HealthkitConfig
  /\ \A config \in Given : \A t \in Traffic(config) :
       /\ t.request \in AgnosticRequest
       /\ \A c \in ToSet(config.checks) :
            c.name \in DOMAIN t.results /\ IsResult(t.results[c.name])

VARIABLES
  given,     \* the configuration, as it was when the constructor was called
  kit,       \* the configuration of the kit; << >> before there is one
  answered   \* the request, its results and its response; or << >>

vars == <<given, kit, answered>>

TheKit == kit[1]
HasKit == kit # << >>

AnswersInit == given \in Given /\ kit = << >> /\ answered = << >>

Or(value, default) == IF value # Unset THEN value ELSE default

-----------------------------------------------------------------------------
\* Slips (see Executor).
ValidTimer_OneMore(value) ==
  value # NaN /\ (value % 2) = 0 /\ value >= 2 /\ value <= 2 * (MaxTimer + 1)

-----------------------------------------------------------------------------
ValidTimer(value) ==
  value # NaN /\ (value % 2) = 0 /\ value >= 2 /\ value <= 2 * MaxTimer

SetTimers(config) ==
  {config.defaults.timeout}
    \cup UNION {{c.timeout, c.interval} : c \in ToSet(config.checks)}

ValidConfig(config) ==
  /\ \A value \in SetTimers(config) \ {Unset} : ValidTimer(value)
  /\ IsInjective([i \in DOMAIN config.checks |-> config.checks[i].name])

\* The kit copies the configuration, or the constructor throws.
Construct ==
  /\ ~HasKit /\ ValidConfig(given)
  /\ kit' = <<given>>
  /\ UNCHANGED <<given, answered>>

\* The objects of which the kit keeps a reference and no copy, besides rollup:
\* onFail and onDegraded of the checks and of the defaults.
Shared == {"treatAs", "onFail", "onDegraded"}

Assigned(part, other) ==
  [p \in DOMAIN part |-> IF p \in Shared \cap DOMAIN other THEN other[p] ELSE part[p]]

\* The application assigns to the objects it has given to the constructor; to
\* computeStatus, if it has given a rollup, which may have been empty.
Alter ==
  /\ HasKit
  /\ \E other \in Other : \E rollup \in {TheKit.rollup, other.rollup} :
       /\ Len(other.checks) = Len(TheKit.checks)
       /\ kit' = <<[TheKit EXCEPT
            !.defaults = Assigned(@, other.defaults),
            !.output   = Assigned(@, other.output),
            !.checks   = [i \in DOMAIN @ |-> Assigned(@[i], other.checks[i])],
            !.rollup   = rollup]>>
  /\ UNCHANGED <<given, answered>>

-----------------------------------------------------------------------------
\* The timers: what the kit asks for, and what the runtime makes of it.
Timeout(config, check) == Or(check.timeout, Or(config.defaults.timeout, 2 * DefaultTimer))

Runs(value) ==
  IF value = NaN \/ value < 2 \/ value > 2 * MaxTimer THEN 2 ELSE value - (value % 2)

-----------------------------------------------------------------------------
\* The status of a check after treatAs.
Effective(check, result) ==
  [result EXCEPT !.status = IF @ = "fail" THEN Or(check.treatAs, @) ELSE @]

ChecksFor(config, type) ==
  FoldLeft(LAMBDA kept, c : IF type \in c.types THEN Append(kept, c) ELSE kept,
           << >>, config.checks)

Results(config, type, raw) ==
  LET checks == ChecksFor(config, type)
      of(n)  == CHOOSE c \in ToSet(checks) : c.name = n
  IN  [n \in {c.name : c \in ToSet(checks)} |-> Effective(of(n), raw[n])]

\* computeRollupStatus; a custom one may say anything.
Rollup(config, results) ==
  LET statuses == {results[n].status : n \in DOMAIN results}
  IN  IF config.rollup # Unset THEN config.rollup
      ELSE IF "fail" \in statuses THEN "fail"
      ELSE IF "degraded" \in statuses THEN "degraded" ELSE "ok"

\* The place of the first check that has this status and a code for it, or 0.
First(checks, results, status, code) ==
  SelectInSeq(checks, LAMBDA c : results[c.name].status = status /\ c[code] # Unset)

DefaultCode(config, overall) ==
  CASE overall = "fail"     -> Or(config.defaults.onFail, 503)
    [] overall = "degraded" -> Or(config.defaults.onDegraded, 200)
    [] overall = "ok"       -> 200

\* A slip: a degraded check softens a rollup that fails.
ResolveHttpStatus_AnyRollup(config, checks, results, overall) ==
  LET failing  == First(checks, results, "fail", "onFail")
      degraded == First(checks, results, "degraded", "onDegraded")
  IN  IF failing # 0 THEN checks[failing].onFail
      ELSE IF degraded # 0 THEN checks[degraded].onDegraded
      ELSE DefaultCode(config, overall)

ResolveHttpStatus(config, checks, results, overall) ==
  LET failing  == First(checks, results, "fail", "onFail")
      degraded == First(checks, results, "degraded", "onDegraded")
  IN  IF failing # 0 THEN checks[failing].onFail
      ELSE IF overall = "degraded" /\ degraded # 0 THEN checks[degraded].onDegraded
      ELSE DefaultCode(config, overall)

-----------------------------------------------------------------------------
Empty    == [kind |-> "empty"]
NotMine  == [code |-> 404, body |-> Empty]
NotRead  == [code |-> 405, body |-> Empty]
Rejected == [code |-> 0, body |-> [kind |-> "thrown"]]

\* runForTypeOpen, with the answer to a drained readiness probe.
RunForType(config, type, draining, raw) ==
  LET drained == type = "readiness" /\ draining
      results == IF drained THEN NoNodes ELSE Results(config, type, raw)
      overall == IF drained THEN "fail" ELSE Rollup(config, results)
      body    == FormatResponse(overall, results, config.output)
      code    == IF drained THEN 503
                 ELSE ResolveHttpStatus(config, ChecksFor(config, type), results, overall)
  IN  IF body.kind = "thrown" THEN Rejected ELSE [code |-> code, body |-> body]

Route == [live |-> "liveness", ready |-> "readiness", startup |-> "startup"]

MatchHealthPath(path) == path \in DOMAIN Route

\* A kit that is closed throws; a path of the application is no matter of its.
HandleRequest(config, request, raw) ==
  IF ~MatchHealthPath(request.path) THEN NotMine
  ELSE IF request.closed THEN Rejected
  ELSE IF request.method \notin {"GET", "HEAD"} THEN NotRead
  ELSE LET response == RunForType(config, Route[request.path], request.draining, raw)
       IN  IF request.method = "HEAD" /\ response.code # 0
           THEN [response EXCEPT !.body = Empty] ELSE response

\* createFetchHandler refuses other methods before it asks the kit.
FetchHandler(config, request, raw) ==
  IF request.method \in {"GET", "HEAD"} THEN HandleRequest(config, request, raw)
  ELSE IF MatchHealthPath(request.path) THEN NotRead ELSE NotMine

\* One request: an answer leaves the kit as it is.
Answer ==
  /\ HasKit /\ answered = << >>
  /\ \E t \in Traffic(given) :
       answered' = <<[request  |-> t.request,
                      raw      |-> t.results,
                      config   |-> TheKit,
                      response |-> IF t.request.fetch
                                   THEN FetchHandler(TheKit, t.request, t.results)
                                   ELSE HandleRequest(TheKit, t.request, t.results)]>>
  /\ UNCHANGED <<given, kit>>

AnswersNext == Construct \/ Alter \/ Answer

AnswersSpec == AnswersInit /\ [][AnswersNext]_vars
-----------------------------------------------------------------------------
\* A kit that was accepted times every check as configured, whatever becomes
\* of the objects it was given: no delay is one the runtime would run as 1 ms
\* or truncate (docs of CheckConfig, "Integer milliseconds, 1-2_147_483_647").
TimersRunAsConfigured ==
  HasKit => \A i \in DOMAIN given.checks :
    LET check  == TheKit.checks[i]
        asked  == given.checks[i]
    IN  /\ Runs(Timeout(TheKit, check)) = Timeout(given, asked)
        /\ asked.interval # Unset => Runs(check.interval) = asked.interval

\* The answer to a probe, with what it was made of.
Probe(draining) ==
  /\ answered # << >>
  /\ answered[1].response.body.kind \in {"status", "full"}
  /\ draining = (answered[1].request.draining /\ answered[1].request.path = "ready")

\* The code of a probe that is not drained is decided by its worst checks: the
\* earliest failing one that has a code; without one a rollup that fails, which
\* no degraded check may soften; then the earliest degraded one that has a code
\* (packages/healthzkit/README.md, "HTTP status").
DecidedByWorst ==
  Probe(FALSE) =>
    LET a       == answered[1]
        checks  == a.config.checks
        mine    == {i \in DOMAIN checks : Route[a.request.path] \in checks[i].types}
        is(i)   == Effective(checks[i], a.raw[checks[i].name]).status
        fails   == {i \in mine : is(i) = "fail" /\ checks[i].onFail # Unset}
        slows   == {i \in mine : is(i) = "degraded" /\ checks[i].onDegraded # Unset}
        code    == a.response.code
        overall == a.response.body.status
    IN  /\ fails # {} => code = checks[Min(fails)].onFail
        /\ fails = {} /\ overall = "fail" => code = Or(a.config.defaults.onFail, 503)
        /\ fails = {} /\ overall = "degraded" =>
             code = IF slows # {} THEN checks[Min(slows)].onDegraded
                    ELSE Or(a.config.defaults.onDegraded, 200)
        /\ fails = {} /\ overall = "ok" => code = 200
        /\ a.config.rollup = Unset /\ (\E i \in mine : is(i) = "fail") => overall = "fail"

\* What a response shows is settled by the configuration the constructor was
\* given: no check in a drained or status-only answer, no error that is hidden,
\* and of listed metadata exactly the permitted leaves, in whatever order they
\* are listed, or nothing when the metadata resists inspection (README,
\* "Allowlists use exact JSON Pointer paths").
ExposesAsGiven ==
  Probe(FALSE) \/ Probe(TRUE) =>
    LET a        == answered[1]
        checks   == a.response.body.checks
        output   == given.output
        used     == {p \in ToSet(output.pointers) : p # << >> /\ ToSet(p) \cap ForbiddenKeys = {}}
        leaves(m) == {p \in DOMAIN m : m[p] = "scalar"}
        trapped(m) == \E p \in used : \E q \in DOMAIN m : m[q] = "trap" /\ IsStrictPrefix(q, p)
    IN  /\ (Probe(TRUE) \/ output.detail = "status") => DOMAIN checks = {}
        /\ \A n \in DOMAIN checks :
             LET m == a.raw[n].metadata
             IN  /\ checks[n].error => output.error
                 /\ output.metadata = "none" => checks[n].metadata = NoNodes
                 /\ output.metadata = "listed" /\ output.format = "json" =>
                      leaves(checks[n].metadata)
                        = IF trapped(m) THEN {} ELSE used \cap leaves(m)
=============================================================================
