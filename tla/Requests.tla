------------------------------- MODULE Requests -------------------------------
(***************************************************************************)
(* What a request is to the workers and handlers that answer it.  Its      *)
(* constructors take the path apart (HTTP::Request) and read the posted    *)
(* form, piece by piece as civetweb hands it over (CivetWeb::Request);     *)
(* after that its arguments are looked up by name or enumerated.           *)
(*                                                                         *)
(* Strings are sequences of symbols.  The prefix "/api/", in any case, is  *)
(* one symbol; "%" followed by "h" stands for an escaped character, which  *)
(* unescaping turns into "d".                                              *)
(***************************************************************************)
EXTENDS Integers, Sequences, FiniteSets, SequencesExt

CONSTANTS
    Symbols,    \* what paths and texts are made of
    Paths,      \* request paths
    Digit,      \* Digit[c]: the value of the digits among the symbols
    NameOrder,  \* names of arguments, in the order of a std::map
    Spellings,  \* those that are "client-address" but for their case
    Pieces,     \* what civetweb may hand over of a form's value at once
    MaxForm,    \* bound: fields and pieces of a form
    Arguments,  \* arguments of the query string, as libudjat finds them
    Headers,    \* headers, as civetweb has them
    Proxied,    \* names that are "X-Forwarded-For" but for their case
    Remote,     \* the address of the connection
    None        \* absent

Names == Range(NameOrder)
Api   == "/api/"
ClientAddress == "client-address"

Text     == Seq(Symbols)
Argument == [name : Names, value : Text]

ASSUME SymbolsAssumption   == "d" \in Symbols
ASSUME PathsAssumption     == Paths \subseteq Text
ASSUME DigitAssumption     == \A c \in DOMAIN Digit : Digit[c] \in 0..9
ASSUME NamesAssumption     == /\ ClientAddress \in Spellings /\ Spellings \subseteq Names
                              /\ NameOrder \in Seq(Names)
ASSUME FormAssumption      == MaxForm \in Nat /\ Pieces \subseteq Text
ASSUME ArgumentsAssumption == Arguments \subseteq Seq(Argument)
ASSUME HeadersAssumption   == Headers \subseteq Seq(Argument)
ASSUME AddressAssumption   == Remote \in Text
ASSUME NoneAssumption      == None \notin Text

VARIABLES
    path,       \* local_uri
    pos,        \* reqpath, as a position in path
    apiver,     \* the version of the API asked for
    phase,      \* "path", "form" or "ready"
    field,      \* the name of the field being read, or None
    values,     \* values[n]: the form's value for n, or None
    size,       \* fields and pieces so far, which are bounded
    form,       \* history: form[n]: all text that came for n, and where cut
    args,       \* what the query string has
    headers     \* the request's headers

input == <<path, args, headers>>
vars  == <<input, pos, apiver, phase, field, values, size, form>>

-----------------------------------------------------------------------------
(* Udjat::String::unescape *)
Unescape[s \in Text] ==
    IF s = <<>> THEN <<>>
    ELSE IF Len(s) > 1 /\ s[1] = "%" /\ s[2] = "h"
         THEN <<"d">> \o Unescape[Tail(Tail(s))]
         ELSE <<Head(s)>> \o Unescape[Tail(s)]

Init ==
    /\ path \in Paths
    /\ args \in Arguments
    /\ headers \in Headers
    /\ pos = IF path # <<>> /\ Head(path) = Api THEN 2 ELSE 1
    /\ apiver = 0
    /\ phase = IF path # <<>> /\ Head(path) = Api THEN "path" ELSE "form"
    /\ field = None
    /\ values = [n \in Names |-> None]
    /\ size = 0
    /\ form = [n \in Names |-> [text |-> <<>>, cuts |-> {}]]

AtVersion == pos <= Len(path) /\ path[pos] # "/"

SlashSkipped ==  \* the loop steps over the slash it ends at
    /\ phase = "path"
    /\ pos' = pos + 1
    /\ IF AtVersion
       THEN /\ apiver' = IF path[pos] \in DOMAIN Digit
                         THEN 10 * apiver - Digit[path[pos]] ELSE apiver
            /\ UNCHANGED phase
       ELSE phase' = "form" /\ UNCHANGED apiver
    /\ UNCHANGED <<input, field, values, size, form>>

(* One turn of the loop over the version.  A digit is subtracted, as
   ('0' - *reqpath) has it; other symbols are passed over. *)
ReadVersion ==
    /\ phase = "path"
    /\ IF AtVersion
       THEN /\ pos' = pos + 1
            /\ apiver' = IF path[pos] \in DOMAIN Digit
                         THEN 10 * apiver - Digit[path[pos]] ELSE apiver
            /\ UNCHANGED phase
       ELSE phase' = "form" /\ UNCHANGED <<pos, apiver>>
    /\ UNCHANGED <<input, field, values, size, form>>

-----------------------------------------------------------------------------
(* The form, when the content type says there is one *)

(* field_found: civetweb begins with another field. *)
FieldFound(n) ==
    /\ phase = "form"
    /\ size < MaxForm
    /\ size' = size + 1
    /\ field' = n
    /\ UNCHANGED <<input, pos, apiver, phase, values, form>>

Recorded(p) ==
    /\ size < MaxForm
    /\ size' = size + 1
    /\ form' = [form EXCEPT ![field] =
                   [text |-> @.text \o p, cuts |-> @.cuts \cup {Len(@.text)}]]

EmptyMakesEntry(p) ==  \* without if(valuelen)
    /\ phase = "form"
    /\ field # None
    /\ values' = [values EXCEPT ![field] = (IF @ = None THEN <<>> ELSE @) \o Unescape[p]]
    /\ Recorded(p)
    /\ UNCHANGED <<input, pos, apiver, phase, field>>

LastPieceWins(p) ==  \* = for +=
    /\ phase = "form"
    /\ field # None
    /\ values' = IF p = <<>> THEN values ELSE [values EXCEPT ![field] = Unescape[p]]
    /\ Recorded(p)
    /\ UNCHANGED <<input, pos, apiver, phase, field>>

(* field_get: a piece of its value.  An empty one makes no entry. *)
FieldGet(p) ==
    /\ phase = "form"
    /\ field # None
    /\ values' = IF p = <<>> THEN values
                 ELSE [values EXCEPT ![field] =
                          (IF @ = None THEN <<>> ELSE @) \o Unescape[p]]
    /\ Recorded(p)
    /\ UNCHANGED <<input, pos, apiver, phase, field>>

FormDone ==
    /\ phase = "form"
    /\ phase' = "ready"
    /\ UNCHANGED <<input, pos, apiver, field, values, size, form>>

Next ==
    \/ ReadVersion
    \/ \E n \in Names : FieldFound(n)
    \/ \E p \in Pieces : FieldGet(p)
    \/ FormDone

Spec == Init /\ [][Next]_vars

-----------------------------------------------------------------------------
(* The finished request *)

(* HTTP::Request::c_str (CivetWeb::Request has its own: the whole path) *)
RequestPath == IF pos <= Len(path) THEN SubSeq(path, pos, Len(path)) ELSE path

(* The first address in the first X-Forwarded-For, else the connection's *)
UpToComma(text) ==
    LET commas == {i \in DOMAIN text : text[i] = ","}
    IN IF commas = {} THEN text ELSE SubSeq(text, 1, Min(commas) - 1)

Address ==
    LET proxies == {i \in DOMAIN headers : headers[i].name \in Proxied}
    IN IF proxies = {} THEN Remote ELSE UpToComma(headers[Min(proxies)].value)

(* The value of the first argument of that name in a list *)
First(list, k) ==
    LET places == {i \in DOMAIN list : list[i].name = k}
    IN IF places = {} THEN None ELSE list[Min(places)].value

ParentFirst(k) ==
    IF k \in Spellings THEN Address
    ELSE IF First(args, k) # None THEN First(args, k)
    ELSE values[k]

(* getProperty: the form, then the address of the client, then the query,
   where libudjat finds the first argument of that name; never the headers *)
GetProperty(k) ==
    IF values[k] # None THEN values[k]
    ELSE IF k \in Spellings THEN Address
    ELSE First(args, k)

(* The posted fields, in the order of their names *)
Posted ==
    LET found  == {i \in DOMAIN NameOrder : values[NameOrder[i]] # None}
        places == CHOOSE s \in [1 .. Cardinality(found) -> found] :
                     \A i, j \in 1 .. Cardinality(found) : i < j => s[i] < s[j]
    IN [i \in 1 .. Cardinality(found) |->
           [name |-> NameOrder[places[i]], value |-> values[NameOrder[places[i]]]]]

(* for_each: the form, the address of the client and the query, as the
   parent's for_each has them, and the headers last *)
ForEach == Posted \o <<[name |-> ClientAddress, value |-> Address]>> \o args \o headers

-----------------------------------------------------------------------------
(* Properties *)

TypeOK ==
    /\ path \in Paths /\ args \in Arguments /\ headers \in Headers
    /\ pos \in 1 .. Len(path) + 1
    /\ apiver \in Int
    /\ phase \in {"path", "form", "ready"}
    /\ field \in Names \cup {None}
    /\ values \in [Names -> (Text \ {<<>>}) \cup {None}]
    /\ size \in 0 .. MaxForm
    /\ form \in [Names -> [text : Text, cuts : SUBSET Nat]]

Ready == phase = "ready"

(* What is asked for under "/api/<version>" is the rest of the path, with its
   slash; it is the whole path when nothing follows the version, and for
   other requests. *)
Slashes == {i \in 2..Len(path) : path[i] = "/"}

PathAfterVersion ==
    Ready => RequestPath =
        IF path # <<>> /\ Head(path) = Api /\ Slashes # {}
        THEN SubSeq(path, CHOOSE i \in Slashes : \A j \in Slashes : i <= j, Len(path))
        ELSE path

(* An escape is cut: one piece ends with "%", the next begins with "h". *)
Cut(f) == \E i \in f.cuts : i \in 1 .. Len(f.text) - 1 /\ f.text[i] = "%" /\ f.text[i + 1] = "h"

(* The value of a field does not depend on how civetweb cuts it, unless it
   cuts an escape; a field that is posted again goes on where it ended, and
   one that is empty is not there. *)
FormIsWhole ==
    Ready => \A n \in Names :
        ~ Cut(form[n]) =>
            values[n] = IF form[n].text = <<>> THEN None ELSE Unescape[form[n].text]

(* for_each passes k only when it has come to the headers. *)
OnlyInHeaders(k) ==
    \A i \in DOMAIN ForEach : ForEach[i].name = k => i > Len(ForEach) - Len(headers)

(* Looking an argument up and enumerating the arguments agree: a value that
   is found is the first that is enumerated of that name, whatever is posted,
   in the query or in the headers under it, and only a name that none but
   headers have, although it is enumerated, is not found.  The client's
   address is found under other spellings of its name too, unless something
   was posted under them. *)
LookupsAgree ==
    Ready => \A k \in Names :
        IF k \in Spellings \ {ClientAddress} /\ values[k] = None
        THEN GetProperty(k) = Address
        ELSE /\ GetProperty(k) # None => GetProperty(k) = First(ForEach, k)
             /\ GetProperty(k) = None <=> OnlyInHeaders(k)

(* request.cc "extract version": the version is the number its digits make. *)
VersionIsNumber ==
    Ready /\ path # <<>> /\ Head(path) = Api =>
        LET end == IF Slashes = {} THEN Len(path)
                   ELSE (CHOOSE i \in Slashes : \A j \in Slashes : i <= j) - 1
            digits == SelectSeq(SubSeq(path, 2, end), LAMBDA c : c \in DOMAIN Digit)
        IN apiver = FoldLeft(LAMBDA v, c : 10 * v + Digit[c], 0, digits)
=============================================================================
