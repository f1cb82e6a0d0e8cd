----------------------------- MODULE Redaction ------------------------------
(***************************************************************************)
(* redaction.py: what is removed from a document before it reaches a model *)
(* or the output, by the names of its keys, and a definition of the same   *)
(* by the places in a document, to compare it with.                        *)
(*                                                                         *)
(* A document is the set of its nodes. A node stands at a place, the       *)
(* labels on the way to it from the root. The label of a key is the set of *)
(* its words (camel case, hyphens and underscores separate words; all of   *)
(* them joined are a word too) and the set of those parts, among all that  *)
(* anybody looks for, that occur in its text; that of an item its number.  *)
(***************************************************************************)
EXTENDS Naturals, FiniteSets, SequencesExt, FiniteSetsExt

Keys   == [words : SUBSET STRING, text : SUBSET STRING]
Labels == Keys \cup [words : {{}}, text : {{}}, number : Nat]

Key(ws) == [words |-> ws, text |-> {}]
Item(i) == [words |-> {}, text |-> {}, number |-> i]

Node(at, kind, value) == [at |-> at, kind |-> kind, value |-> value]

Leaf(v) == {Node(<<>>, "leaf", v)}

\* docs gives the document below each label.
Compound(kind, docs) ==
  {Node(<<>>, kind, "none")} \cup
  UNION {{Node(<<k>> \o n.at, n.kind, n.value) : n \in docs[k]} : k \in DOMAIN docs}

Dict(docs) == Compound("dict", docs)
List(docs) == Compound("list", [k \in {Item(i) : i \in DOMAIN docs} |-> docs[k.number]])

\* No two nodes at one place, and a node at every place on the way to a node.
IsDocument(doc) ==
  /\ IsFiniteSet(doc) /\ doc # {}
  /\ \A n \in doc : n.at \in Seq(Labels)
  /\ \A n, m \in doc : n.at = m.at => n = m
  /\ \A n \in doc : \A i \in 0..Len(n.at) : \E m \in doc : m.at = SubSeq(n.at, 1, i)

Root(doc) == CHOOSE n \in doc : n.at = <<>>

\* The items or the values of a node.
Parts(doc, n) == {m \in doc : m.at # <<>> /\ Front(m.at) = n.at}

\* A document that require_json copies instead of raising an error: every value
\* is one that JSON knows, that is finite and of its types.
Foreign     == Leaf("foreign")
IsJson(doc) == \A n \in doc : n.value # "foreign"

SensitiveWords ==
  {"authorization", "cookie", "password", "secret", "token", "apikey", "accesskey",
   "privatekey", "bearer", "code", "pin", "credential", "key"}

\* Looked for anywhere in the text of a key; a caller can add more.
MINIMUM_REDACTED_KEY_PARTS ==
  {"authorization", "cookie", "password", "secret", "token", "api_key", "access_key",
   "private_key", "bearer", "latitude", "longitude", "location", "address", "code", "pin"}

key_has_sensitive_component(k) == k.words \cap SensitiveWords # {}

Sensitive(k, extra) ==
  \/ key_has_sensitive_component(k)
  \/ k.text \cap (MINIMUM_REDACTED_KEY_PARTS \cup extra) # {}

\* What a sensitive key keeps: REDACTED_VALUE, whatever it had.
Masked(m) == Node(m.at, "leaf", "[REDACTED]")

IsMasked(m, extra) == Sensitive(Last(m.at), extra)

\* What becomes of a node with its parts, and how many of them are masked.
TreeStep(doc, extra, tree, n) ==
  {n} \cup UNION {IF IsMasked(m, extra) THEN {Masked(m)} ELSE tree[m] : m \in Parts(doc, n)}

CountStep(doc, extra, count, n) ==
  SumFunction([m \in Parts(doc, n) |-> IF IsMasked(m, extra) THEN 1 ELSE count[m]])

\* Mutant: what lies in a list has no key, and is copied as it is.
RedactDicts(doc, extra) ==
  LET tree[n \in doc] == IF n.kind = "list" THEN {m \in doc : IsPrefix(n.at, m.at)}
                         ELSE TreeStep(doc, extra, tree, n)
      count[n \in doc] == IF n.kind = "list" THEN 0 ELSE CountStep(doc, extra, count, n)
  IN [tree |-> tree[Root(doc)], count |-> count[Root(doc)]]

Redact(doc, extra) ==
  LET tree[n \in doc]  == TreeStep(doc, extra, tree, n)
      count[n \in doc] == CountStep(doc, extra, count, n)
  IN [tree |-> tree[Root(doc)], count |-> count[Root(doc)]]

-----------------------------------------------------------------------------
(* What redaction is for, without a walk.                                  *)

Hidden(doc, extra) == {m \in doc : m.at # <<>> /\ IsMasked(m, extra)}

\* The outermost nodes under a sensitive key.
Secrets(doc, extra) ==
  {m \in Hidden(doc, extra) : \A q \in Hidden(doc, extra) : ~IsStrictPrefix(q.at, m.at)}

\* `clean' is `doc' with exactly its secrets taken out.
Redacts(doc, clean, extra) ==
  clean = {n \in doc : \A q \in Hidden(doc, extra) : ~IsPrefix(q.at, n.at)}
            \cup {Masked(m) : m \in Secrets(doc, extra)}

\* Nothing is left to take out.
Clean(doc, extra) == \A m \in Hidden(doc, extra) : m = Masked(m)
=============================================================================
