----------------------------- MODULE Redaction -----------------------------
(***************************************************************************)
(* The projection of a response for the public (formatter/redact.ts and    *)
(* formatter/index.ts).                                                    *)
(*                                                                         *)
(* The metadata of a check is the tree of its own properties: a function   *)
(* from paths, which are sequences of keys, to kinds of values, and the    *)
(* empty function when there is none.  Only a record has nodes below it:   *)
(*   "record"   a plain object;                                            *)
(*   "scalar"   a string, boolean, null or finite number;                  *)
(*   "opaque"   an array, accessor, class instance or function;            *)
(*   "bigint"   any value that cannot be serialized;                       *)
(*   "trap"     an object that throws when it is inspected.                *)
(* A pointer is a sequence of keys, or << >> when it is malformed.         *)
(***************************************************************************)
EXTENDS SequencesExt

NoNodes == << >>

ForbiddenKeys == {"__proto__", "prototype", "constructor", "toJSON"}

\* The ways from the root to a node: itself last.
Ways(pointer) == {SubSeq(pointer, 1, n) : n \in 1..Len(pointer)}

Above(pointer) == {SubSeq(pointer, 1, n) : n \in 0..Len(pointer) - 1}

\* Slips (see Executor).
Insert_Replaces(selected, pointer) ==
  LET kept == {p \in DOMAIN selected : p[1] # pointer[1]} \cup Ways(pointer)
  IN  [p \in kept |-> IF p = pointer THEN "scalar"
                      ELSE IF p \in Ways(pointer) THEN "record" ELSE selected[p]]

-----------------------------------------------------------------------------
\* Walking along the pointer inspects every node above its end.
Throws(metadata, pointer) ==
  \E p \in Above(pointer) \cap DOMAIN metadata : metadata[p] = "trap"

Ignored(pointer) == pointer = << >> \/ ToSet(pointer) \cap ForbiddenKeys # {}

\* The leaf is copied; the records above it are created where they are missing.
Insert(selected, pointer) ==
  [p \in DOMAIN selected \cup Ways(pointer) |->
     IF p = pointer THEN "scalar" ELSE IF p \in DOMAIN selected THEN selected[p] ELSE "record"]

Select(metadata, selected, pointer) ==
  IF ~Ignored(pointer) /\ pointer \in DOMAIN metadata /\ metadata[pointer] = "scalar"
  THEN Insert(selected, pointer) ELSE selected

\* allowMetadata within safeAllowMetadata: a throw drops everything.
AllowMetadata(metadata, pointers) ==
  IF \E p \in ToSet(pointers) : ~Ignored(p) /\ Throws(metadata, p) THEN NoNodes
  ELSE FoldLeft(LAMBDA selected, pointer : Select(metadata, selected, pointer),
                NoNodes, pointers)

PublicMetadata(metadata, output) ==
  CASE output.metadata = "none"   -> NoNodes
    [] output.metadata = "listed" -> AllowMetadata(metadata, output.pointers)
    [] output.metadata = "all"    -> metadata

RedactResult(result, output) ==
  [status   |-> result.status,
   error    |-> result.error /\ output.error,
   metadata |-> PublicMetadata(result.metadata, output)]

\* Serialization fails on some values; the text format has no metadata.
Serializable(metadata) == \A p \in DOMAIN metadata : metadata[p] \notin {"bigint", "trap"}

StatusBody(status) == [kind |-> "status", status |-> status, checks |-> NoNodes]

\* The body for a structured response, or "thrown".
FormatResponse(status, results, output) ==
  LET checks == [n \in DOMAIN results |-> RedactResult(results[n], output)]
      text   == [n \in DOMAIN checks |-> [checks[n] EXCEPT !.metadata = NoNodes]]
  IN  IF output.detail = "status" THEN StatusBody(status)
      ELSE IF output.format = "text" THEN [kind |-> "full", status |-> status, checks |-> text]
      ELSE IF \A n \in DOMAIN checks : Serializable(checks[n].metadata)
      THEN [kind |-> "full", status |-> status, checks |-> checks]
      ELSE [kind |-> "thrown"]
=============================================================================
