--------------------------- MODULE ErrorDetails ---------------------------
(***************************************************************************)
(* The details of a CodedError (apperror) and their way into responses and  *)
(* records (logger.RedactMap), and the query string in an access record.    *)
(*                                                                          *)
(* Details are maps and arrays that may share parts and that callers go on  *)
(* changing, so they live on a heap: a cell is a map[string]any or a []any, *)
(* and a value is a cell, a leaf or what Go passes by reference without     *)
(* being either: a []string, a map[string]string.  Such a typed value is a  *)
(* name here, for what the value holds see  elements .                      *)
(* What cloneDetails or RedactMap makes is a tree of new cells, named by    *)
(* the copy and the path.  Details have no cycles: none of these functions  *)
(* would return.                                                            *)
(***************************************************************************)
EXTENDS Naturals, Sequences, FiniteSetsExt

CONSTANTS
    Keys,       \* keys a caller writes
    Leaves,     \* leaves a caller writes
    TypedValues,\* typed slices and typed maps that callers made
    Queries,    \* query strings of requests
    \* Bounds: errors, copies and writes of callers, and the depth of details.
    MaxErrors, MaxCopies, MaxWrites, MaxDepth

ASSUME DetailsAssumption ==
    /\ MaxErrors \in Nat /\ MaxCopies \in Nat /\ MaxWrites \in Nat
    \* A handler's details are three levels deep, which callers are to exceed.
    /\ MaxDepth \in Nat /\ MaxDepth >= 4
    /\ \A v \in Leaves \cup TypedValues : v[1] # "cell"
    /\ \A q \in Queries :
          /\ DOMAIN q \subseteq Nat
          /\ \A i \in DOMAIN q :
                /\ q[i].key \in [name : STRING, encoded : Nat, broken : BOOLEAN]
                /\ q[i].lost \in BOOLEAN
                /\ q[i].value[1] # "cell"

Cell(copy, p) == <<"cell", copy, p>>
Nil == <<"nil">>
RedactedValue == <<"redacted">>

fieldKeysToRedact ==
    {"password", "current_password", "new_password", "access_token",
     "refresh_token", "id_token", "code", "code_verifier", "client_secret",
     "assertion", "client_assertion", "private_key", "secret", "api_key", "jwt",
     "bearer_token"}

Capitals == [PASSWORD |-> "password", Code |-> "code"]
ToLower(key) == IF key \in DOMAIN Capitals THEN Capitals[key] ELSE key

IsFieldKeyToRedact(key) == ToLower(key) \in fieldKeysToRedact

---------------------------------------------------------------------------
(* Values on a heap.                                                        *)

IsCell(h, v) == v \in DOMAIN h

Content(kind, slots) == [kind |-> kind, slots |-> slots]

\* An array's slots are its indices, written as strings.
SlotsOf(h, v) == IF IsCell(h, v) THEN DOMAIN h[v].slots ELSE {}

\* Each path from v, with where it leads.
Walk(h, v) ==
    LET Beyond(x) == {<<Append(x[1], s), h[x[2]].slots[s]>> : s \in SlotsOf(h, x[2])}
        reached[n \in 0..MaxDepth] ==
            IF n = 0 THEN {<< << >>, v >>}
            ELSE LET before == reached[n - 1]
                 IN before \cup UNION {Beyond(x) : x \in before}
    IN reached[MaxDepth]

\* What a reader of v sees: each path, with its leaf or the kind of its cell.
Tree(h, v) ==
    {<<x[1], IF IsCell(h, x[2]) THEN h[x[2]].kind ELSE x[2]>> : x \in Walk(h, v)}

\* A map or a heap with some of its slots or cells set.
Merged(f, changes) ==
    [x \in DOMAIN f \cup DOMAIN changes |->
        IF x \in DOMAIN changes THEN changes[x] ELSE f[x]]

CellsUnder(h, v) == {x[2] : x \in {y \in Walk(h, v) : IsCell(h, y[2])}}

\* Mutant: arrays are taken over as they are.
CopiedMaps(h, v) == IsCell(h, v) /\ h[v].kind = "map"

\* cloneValue and redactValue go into maps and []any; what else there is, typed
\* values among it, is taken over.
Copied(h, v) == IsCell(h, v) /\ h[v].kind \in {"map", "array"}

\* The part of a heap that they go into, but for the slots that are replaced.
Entered(h, replaced) ==
    LET Into(c) == {s \in DOMAIN h[c].slots :
                       <<c, s>> \notin replaced /\ Copied(h, h[c].slots[s])}
    IN [c \in {d \in DOMAIN h : Copied(h, d)} |->
           Content(h[c].kind, [s \in Into(c) |-> h[c].slots[s]])]

\* The cells of a copy of v in which the replaced slots hold RedactedValue.
CopyOf(h, copy, v, replaced) ==
    LET entered == Entered(h, replaced)
        walked == Walk(entered, v)
        Value(p, c, s) ==
            IF <<c, s>> \in replaced THEN RedactedValue
            ELSE IF s \in SlotsOf(entered, c) THEN Cell(copy, Append(p, s))
            ELSE h[c].slots[s]
        CopyAt(p, c) ==
            Content(h[c].kind, [s \in DOMAIN h[c].slots |-> Value(p, c, s)])
    IN [cell \in {Cell(copy, x[1]) : x \in walked} |->
           LET x == CHOOSE y \in walked : y[1] = cell[3] IN CopyAt(x[1], x[2])]

cloneDetails(h, copy, m) == CopyOf(h, copy, m, {})

\* Mutant: only the keys of the outermost map are looked at.
RedactMapOutermost(h, copy, m) ==
    CopyOf(h, copy, m, {m} \X {s \in SlotsOf(h, m) : IsFieldKeyToRedact(s)})

\* The slots of maps whose key is to be redacted.
ToRedact(h) ==
    UNION {{<<c, s>> : s \in {t \in DOMAIN h[c].slots : IsFieldKeyToRedact(t)}} :
              c \in {d \in DOMAIN h : h[d].kind = "map"}}

\* Their values are replaced whole, at any depth.
RedactMap(h, copy, m) == CopyOf(h, copy, m, ToRedact(h))

---------------------------------------------------------------------------
(* Query strings.  A pair is a key with its name, how often it was percent- *)
(* encoded or that it cannot be decoded, whether a "=" and a value follow,  *)
(* and whether net/url loses the pair for anything else than its key: a     *)
(* value that cannot be decoded, a ";".                                     *)

\* QueryUnescape of a key, once; a key that cannot be decoded is left.
Decoded(key) ==
    IF key.broken \/ key.encoded = 0 THEN key ELSE [key EXCEPT !.encoded = @ - 1]

Names(key) == key.encoded = 0 /\ ~key.broken /\ IsFieldKeyToRedact(key.name)

\* net/url's ParseQuery: a pair that cannot be decoded or has a ";" is dropped,
\* and of those with one name the handler takes the first.  A name that is still
\* encoded is no other than itself.
NameIn(key) == IF Decoded(key).encoded = 0 THEN key.name ELSE "%"
Readable(raw) == {i \in DOMAIN raw : ~raw[i].key.broken /\ ~raw[i].lost}
ParseQuery(raw) ==
    [n \in {NameIn(raw[i].key) : i \in Readable(raw)} |->
        raw[Min({i \in Readable(raw) : NameIn(raw[i].key) = n})].value]

\* Mutant: keys are taken as they came.
redactQueryStringRaw(raw) ==
    [i \in DOMAIN raw |->
        IF Names(raw[i].key) /\ raw[i].hasEq
        THEN [raw[i] EXCEPT !.value = RedactedValue] ELSE raw[i]]

redactQueryString(raw) ==
    [i \in DOMAIN raw |->
        IF Names(Decoded(raw[i].key)) /\ raw[i].hasEq
        THEN [raw[i] EXCEPT !.value = RedactedValue] ELSE raw[i]]

---------------------------------------------------------------------------
VARIABLES
    query,      \* the query string of the request
    heap,       \* the cells
    elements,   \* what each typed value holds
    held,       \* the maps that callers got, or made
    errors,     \* the details of each CodedError
    copies,     \* copies made so far
    writes      \* writes of callers so far

vars == <<query, heap, elements, held, errors, copies, writes>>

\* A handler's details: what it read from the query, in an array in a map.
Received(read) ==
    LET list == Cell(0, <<"list">>)
        item == Cell(0, <<"list", "0">>)
        Holds(c) ==
            CASE c = list -> Content("array", [i \in {"0"} |-> item])
              [] c = item -> Content("map", read)
              [] OTHER -> Content("map", [list |-> list])
    IN [c \in {Cell(0, << >>), list, item} |-> Holds(c)]

Init ==
    /\ query \in Queries
    /\ heap = Received(ParseQuery(query))
    /\ elements = [t \in TypedValues |-> Nil]
    /\ held = {Cell(0, << >>)}
    /\ errors = << >>
    /\ copies = 0
    /\ writes = 0

\* A copy becomes part of the heap, its map at Cell(copies + 1, << >>).
NewCopy == Cell(copies + 1, << >>)
Put(cells) ==
    /\ copies < MaxCopies
    /\ copies' = copies + 1
    /\ heap' = Merged(heap, cells)

AddError(details) ==
    /\ Len(errors) < MaxErrors
    /\ errors' = Append(errors, details)

\* New(code, message), with WithDetails(nil) which adds none.
New ==
    /\ AddError(Nil)
    /\ UNCHANGED <<query, heap, elements, held, copies, writes>>

\* e.WithDetails(m): a new error with a copy of the caller's map.
WithDetails(m) ==
    /\ Put(cloneDetails(heap, copies + 1, m))
    /\ AddError(NewCopy)
    /\ UNCHANGED <<query, elements, held, writes>>

\* e.Wrap(cause): a new error with the very details of e.
Wrap(e) ==
    /\ AddError(errors[e])
    /\ UNCHANGED <<query, heap, elements, held, copies, writes>>

\* Mutant: the caller is given the details themselves.
DetailsThemselves(e) ==
    /\ errors[e] # Nil
    /\ held' = held \cup {errors[e]}
    /\ UNCHANGED <<query, heap, elements, errors, copies, writes>>

\* e.Details(), or ToResponse(e): a copy is the caller's.
Details(e) ==
    /\ errors[e] # Nil
    /\ Put(cloneDetails(heap, copies + 1, errors[e]))
    /\ held' = held \cup {NewCopy}
    /\ UNCHANGED <<query, elements, errors, writes>>

\* RedactMap(m): a copy to be logged, which is the caller's as well.
LogDetails(m) ==
    /\ Put(RedactMap(heap, copies + 1, m))
    /\ held' = held \cup {NewCopy}
    /\ UNCHANGED <<query, elements, errors, writes>>

Callers == UNION {CellsUnder(heap, m) : m \in held}

\* A caller changes a map or an array it holds.
Write(c, s, v) ==
    /\ writes < MaxWrites
    /\ heap[c].kind = "array" => s \in DOMAIN heap[c].slots
    /\ c \notin CellsUnder(heap, v)
    /\ heap' = [heap EXCEPT ![c].slots = Merged(@, [t \in {s} |-> v])]
    /\ \A m \in held : \A x \in Walk(heap', m) : Len(x[1]) < MaxDepth
    /\ writes' = writes + 1
    /\ UNCHANGED <<query, elements, held, errors, copies>>

\* It changes a typed value that it made, wherever that has been put or taken
\* over since.
WriteElement(t, v) ==
    /\ writes < MaxWrites
    /\ elements' = [elements EXCEPT ![t] = v]
    /\ writes' = writes + 1
    /\ UNCHANGED <<query, heap, held, errors, copies>>

Next ==
    \/ New
    \/ \E m \in held : WithDetails(m) \/ LogDetails(m)
    \/ \E e \in DOMAIN errors : Wrap(e) \/ Details(e)
    \/ \E c \in Callers : \E s \in Keys \cup DOMAIN heap[c].slots :
          \E v \in Leaves \cup TypedValues \cup held : Write(c, s, v)
    \/ \E t \in TypedValues : \E v \in Leaves : WriteElement(t, v)

Spec == Init /\ [][Next]_vars

---------------------------------------------------------------------------
(* Properties.                                                              *)

(* Every cell that is referred to exists, and the maps and arrays in the details
   of an error are a tree of their own, whatever they were copied from. *)
TypeOK ==
    /\ \A c \in DOMAIN heap : \A s \in DOMAIN heap[c].slots :
          heap[c].slots[s][1] = "cell" => heap[c].slots[s] \in DOMAIN heap
    /\ elements \in [TypedValues -> Leaves \cup {Nil}]
    /\ held \subseteq DOMAIN heap
    /\ Len(errors) <= MaxErrors /\ copies <= MaxCopies /\ writes <= MaxWrites
    /\ \A e \in DOMAIN errors : errors[e] # Nil =>
          \A c \in CellsUnder(heap, errors[e]) : c[2] = errors[e][2]

(* The immutable contract of CodedError as far as cloneDetails goes: whatever
   callers go on doing with the maps and arrays they passed in, got back or share
   among errors, responses and records, the details of an error have the maps,
   arrays and leaves, and in their places the typed values, that the error was
   made with.  What a typed value holds is not part of it. *)
ErrorsKeepContents ==
    [][\A e \in DOMAIN errors :
          errors'[e] = errors[e] /\ Tree(heap', errors'[e]) = Tree(heap, errors[e])]_vars

\* What is to be seen in v, typed values included.
Shown(h, els, v) ==
    {<<x[1], IF x[2] \in TypedValues THEN els[x[2]] ELSE x[2]>> : x \in Tree(h, v)}

(* The contract as apperror.go states it: details are deep-copied, so that no
   change by a caller has an effect on an error.  cloneValue takes typed slices
   and typed maps over as they are, and so an error shows what becomes of them. *)
ErrorsAreImmutable ==
    [][\A e \in DOMAIN errors :
          Shown(heap', elements', errors'[e]) = Shown(heap, elements, errors[e])]_vars

FirstRedacted(p, i) ==
    IsFieldKeyToRedact(p[i]) /\ \A j \in 1..(i - 1) : ~IsFieldKeyToRedact(p[j])

(* A record of details shows the placeholder for the value of every key of the
   list, in whatever case and however deep in maps and arrays, and all else as
   it was.  A typed map is part of all else, with the keys in it: RedactMap is
   for what json.Unmarshal makes. *)
DetailsRedacted ==
    \A m \in held :
        LET from == Tree(heap, m)
            out == Tree(Merged(heap, RedactMap(heap, copies + 1, m)), NewCopy)
        IN out =
            {x \in from : \A i \in DOMAIN x[1] : ~IsFieldKeyToRedact(x[1][i])}
            \cup
            UNION {{<<SubSeq(x[1], 1, i), RedactedValue>> :
                       i \in {j \in DOMAIN x[1] : FirstRedacted(x[1], j)}} : x \in from}

(* An access record keeps every pair of the query in its place and spelling, and
   in it the value of no pair that a handler reads under a key of the list.  The
   other pairs that a handler reads keep their values too.  Of a pair that no
   handler reads, the value is kept or replaced. *)
QueryRedacted ==
    LET logged == redactQueryString(query)
        Redacted(i) == [query[i] EXCEPT !.value = RedactedValue]
        Secret(i) == query[i].hasEq /\ IsFieldKeyToRedact(NameIn(query[i].key))
    IN /\ DOMAIN logged = DOMAIN query
       /\ \A i \in DOMAIN query : logged[i] \in {query[i], Redacted(i)}
       /\ \A i \in Readable(query) : logged[i] = IF Secret(i) THEN Redacted(i) ELSE query[i]

===========================================================================
