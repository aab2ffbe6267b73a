---------------------------- MODULE LocalRegistry ---------------------------
(* ModelRegistry of model_hub/api/registry.py for one model: the cards kept  *)
(* locally, a server that may have others, and calls to it that may fail.  A *)
(* version is the sequence of its three numbers; the registry orders the     *)
(* names of the directories, the server orders the numbers.                  *)
EXTENDS Integers, Sequences, SequencesExt, FiniteSets

CONSTANTS
  Versions,         \* sequences of three numbers below 100
  NULL

VARIABLES
  local,            \* the versions with a card in the local registry
  server,           \* the versions the server has
  got, stock        \* what get_model last returned, of which local versions

vars == <<local, server, got, stock>>

Init == local = {} /\ server \in SUBSET Versions /\ got = NULL /\ stock = {}

-----------------------------------------------------------------------------

\* A number below 100 in digits.
Digits(n) == IF n < 10 THEN <<n>> ELSE <<n \div 10, n % 10>>

\* A directory's name: the dots sort before the digits.
Name(v) == Digits(v[1]) \o <<-1>> \o Digits(v[2]) \o <<-1>> \o Digits(v[3])

\* The order of two sequences of numbers, as Python compares strings.
Before(s, t) ==
  \/ IsStrictPrefix(s, t)
  \/ \E i \in DOMAIN s \cap DOMAIN t :
       s[i] < t[i] /\ \A j \in 1 .. i - 1 : s[j] = t[j]

\* SemVer.__lt__
Older(v, w) == Before(v, w)

\* list_versions_local: the names in descending order, of which get_model_local
\* takes the first.
Latest(set) == CHOOSE v \in set : \A w \in set \ {v} : Before(Name(w), Name(v))

\* The server's own choice, get_model_card.
Newest(set) == CHOOSE v \in set : \A w \in set \ {v} : Older(w, v)

-----------------------------------------------------------------------------

\* The files are stored before the card is written; a card is written whole.
register_model(v) ==
  /\ local' = local \cup {v}
  /\ UNCHANGED <<server, got, stock>>

\* Someone uploads a version to the server.
Publish(v) ==
  /\ server' = server \cup {v}
  /\ UNCHANGED <<local, got, stock>>

\* get_model of "latest": locally, or else from the server, whose card is kept.
get_model ==
  \/ /\ local # {}
     /\ got' = Latest(local) /\ stock' = local
     /\ UNCHANGED <<local, server>>
  \/ /\ local = {} /\ server # {}
     /\ got' = Newest(server) /\ stock' = {Newest(server)}
     /\ local' = {Newest(server)}
     /\ UNCHANGED server

\* download_model of "latest": the server first, the local card if that fails.
download_model(fails) ==
  \/ /\ ~fails /\ server # {}
     /\ local' = local \cup {Newest(server)}
     /\ got' = Newest(server) /\ stock' = {Newest(server)}
     /\ UNCHANGED server
  \/ /\ fails \/ server = {}
     /\ local # {}
     /\ got' = Latest(local) /\ stock' = local
     /\ UNCHANGED <<local, server>>

Next ==
  \/ \E v \in Versions : register_model(v) \/ Publish(v)
  \/ get_model
  \/ \E fails \in BOOLEAN : download_model(fails)

Spec == Init /\ [][Next]_vars

-----------------------------------------------------------------------------

\* "latest first": the version got as the latest is the newest of those the
\* registry chose from, in the order of SemVer.
LatestIsNewest == got # NULL => \A v \in stock : ~Older(got, v)
=============================================================================
