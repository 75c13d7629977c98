------------------------ MODULE OntologyServiceProofs ------------------------
(***************************************************************************)
(* What the calls of OntologyService promise about one domain holds        *)
(* whatever any number of callers do about the others, wherever a call     *)
(* fails, for every set of ontologies, catalog and size of a chunk.        *)
(***************************************************************************)
EXTENDS OntologyService, SequenceTheorems, TLAPS

Writes(k) == k.op \notin {"read", "refresh"}

\* A call that has met no other is the only one at work on its domains.
Apart ==
  \A c \in alone : \A x \in Caller \ {c} :
    Busy(c) /\ Busy(x) => Touches(call[c]) \cap Touches(call[x]) = {}

\* A domain some call is at work on is not among those the history vouches for.
Reserved ==
  \A x \in Caller : Busy(x) => \A d \in Touches(call[x]) :
    /\ Writes(call[x]) => known[d] = Unknown
    /\ call[x].op # "read" => d \notin settled

\* What such a call has read is still so when it uses it, and what it has
\* written is still there.
OnCourse(c) ==
  LET k == call[c] IN
  /\ k.stage \in {"list", "get_to", "write_to"} =>
       Exists(k.domain) /\ k.body = schema[k.domain].body
  /\ k.op = "refresh" /\ k.stage # "get" => k.body = schema[k.domain].body
  /\ k.stage = "write_to" => ~Exists(k.to)
  /\ k.op = "rename" /\ k.stage \in {"filter", "list_ids", "delete_ids"} =>
       k.to # k.domain /\ Exists(k.to) /\ schema[k.to].body = k.body
  /\ k.op # "refresh" /\ k.stage \in {"list_ids", "delete_ids"} =>
       ~Exists(k.domain) /\ OfDomain(k.domain) = {}
  /\ k.op = "refresh" /\ k.stage \in {"missing", "upsert", "delete_ids"} =>
       /\ OfDomain(k.domain) \subseteq k.ids \cup Refreshed(k)
       /\ k.ids \cap Refreshed(k) = {}
  /\ k.stage = "upsert" => k.todo \subseteq Refreshed(k) /\ Refreshed(k) \subseteq routing \cup k.todo
  /\ k.op = "refresh" /\ k.stage = "delete_ids" => Refreshed(k) \subseteq routing
  /\ k.op = "patch" /\ k.stage = "put" /\ k.expected # None =>
       k.expected = schema[k.domain].version

Progress == \A c \in alone : Busy(c) => OnCourse(c)

\* The version a patch expects is the one its caller read last.
ExpectsItsView ==
  \A c \in Caller : call[c].op = "patch" /\ call[c].expected # None =>
    view[c].domain = call[c].domain /\ view[c].version = call[c].expected

\* As long as the version read is the stored one, so is the ontology read.
ViewsHold ==
  \A c \in Caller : view[c].sound =>
    /\ view[c].domain \in Domain
    /\ view[c].version \in 1 .. now
    /\ schema[view[c].domain].version = view[c].version =>
         schema[view[c].domain].body = view[c].body

ServiceInv ==
  /\ TypeOK
  /\ Apart
  /\ Reserved
  /\ Progress
  /\ ExpectsItsView
  /\ ViewsHold
  /\ AcknowledgedStays
  /\ IndexFollows

-------------------------------------------------------------------------------
(* Types                                                                   *)

StoreOK ==
  /\ schema \in [Domain -> [body : Ontology, version : 1 .. now] \cup {Absent}]
  /\ routing \subseteq Passage
  /\ now \in Nat

CallsOK ==
  /\ call \in [Caller -> CallState] /\ \A c \in Caller : CallOK(call[c])
  /\ alone \subseteq Caller /\ settled \subseteq Domain

LEMMA TypeParts == TypeOK <=> StoreOK /\ CallsOK /\ view \in [Caller -> ViewState]
  BY DEF TypeOK, StoreOK, CallsOK

\* An absent domain has no body, a stored one has an ontology.
LEMMA StoredBody ==
  ASSUME StoreOK, NEW d \in Domain
  PROVE  /\ schema[d].version \in Nat /\ schema[d].version <= now
         /\ Exists(d) <=> schema[d].body # None
         /\ Exists(d) <=> schema[d].version # 0
         /\ Exists(d) <=> schema[d].body \in Ontology
         /\ ~Exists(d) => schema[d].body = None
  BY NoneAssumption DEF StoreOK, Exists, Absent

LEMMA PassagesType ==
  ASSUME NEW d \in Domain, NEW o \in Ontology
  PROVE  /\ PassagesOf(d, o) \subseteq Passage /\ PassagesOf(d, o) # {}
         /\ \A p \in PassagesOf(d, o) : p[1] = d
<1>1. o.desc \in Desc /\ o.props \subseteq Prop
  BY DEF Ontology
<1>2. \A t \in PassagesOf(d, o) :
        \/ t = <<d, <<"domain", o.desc>>>>
        \/ \E p \in o.props : t = <<d, <<"property", p>>>>
  BY DEF PassagesOf
<1>3. <<d, <<"domain", o.desc>>>> \in PassagesOf(d, o)
  BY DEF PassagesOf
<1>4. \A t \in PassagesOf(d, o) : t \in Passage
  BY <1>1, <1>2 DEF Passage
<1> QED
  BY <1>2, <1>3, <1>4

LEMMA IdleType == Idle \in CallState /\ CallOK(Idle)
<1>1. << >> \in Seq(Item)
  OBVIOUS
<1> QED
  BY <1>1 DEF Idle, CallState, CallOK, Stage

LEMMA BeginType ==
  ASSUME TypeOK, NEW c \in Caller, NEW k \in CallState, CallOK(k), Begin(c, k)
  PROVE  TypeOK'
<1>1. CallsOK'
  <2>1. alone' \subseteq alone /\ settled' \subseteq settled /\ call' = [call EXCEPT ![c] = k]
    BY DEF Begin
  <2> QED
    BY <2>1 DEF TypeOK, CallsOK
<1>2. StoreOK' /\ view' \in [Caller -> ViewState]
  BY DEF Begin, TypeOK, store, StoreOK
<1> QED
  BY <1>1, <1>2 DEF TypeOK, StoreOK, CallsOK

LEMMA EndType ==
  ASSUME TypeOK, NEW c \in Caller, NEW ordered \in SUBSET Domain, NEW facts,
         End(c, ordered, facts)
  PROVE  CallsOK'
  BY IdleType DEF End, TypeOK, CallsOK

LEMMA RefusedType ==
  ASSUME TypeOK, NEW c \in Caller, Refused(c) \/ Abort(c)
  PROVE  CallsOK'
  BY EndType DEF Refused, Abort

LEMMA GotoType ==
  ASSUME TypeOK, NEW c \in Caller, NEW st \in Stage, Goto(c, st),
         CallOK([call[c] EXCEPT !.stage = st])
  PROVE  CallsOK'
<1>1. [call[c] EXCEPT !.stage = st] \in CallState
  BY DEF TypeOK, CallState
<1>2. call' = [call EXCEPT ![c] = [call[c] EXCEPT !.stage = st]]
  BY DEF Goto
<1> QED
  BY <1>1, <1>2 DEF Goto, TypeOK, CallsOK

LEMMA StampType ==
  ASSUME TypeOK, NEW d \in Domain, NEW o \in Ontology, Stamp(d, o)
  PROVE  StoreOK'
<1>1. now' = now + 1 /\ now \in Nat /\ now' \in Nat
  BY DEF Stamp, TypeOK
<1>2. \A e \in Domain : schema'[e] \in [body : Ontology, version : 1 .. now'] \cup {Absent}
  BY <1>1 DEF Stamp, TypeOK, Absent
<1> QED
  BY <1>1, <1>2 DEF Stamp, TypeOK, StoreOK

\* A request starts with its name and its domain, and nothing else.
LEMMA RequestForm ==
  ASSUME NEW op \in Operation, NEW d \in Domain
  PROVE  LET k == Request(op, d) IN
         /\ k \in CallState
         /\ k.op = op /\ k.stage = "get" /\ k.domain = d
         /\ k.to = None /\ k.body = None /\ k.patch = None /\ k.expected = None
         /\ k.ids = {} /\ k.todo = {} /\ k.queue = << >>
<1>1. Request(op, d) \in CallState
  BY IdleType DEF Request, CallState, Stage
<1> QED
  BY <1>1 DEF Request, Idle

LEMMA ItemForm ==
  ASSUME NEW q \in Seq(Item), q # << >>
  PROVE  LET k == ImportItem(q) IN
         /\ k \in CallState /\ CallOK(k)
         /\ k.op = "import" /\ k.stage = "get"
         /\ Touches(k) \subseteq {q[i].domain : i \in DOMAIN q}
<1> DEFINE k == ImportItem(q)
<1>1. Head(q) \in Item /\ Head(q) = q[1] /\ 1 \in DOMAIN q
  OBVIOUS
<1>2. Head(q).domain \in Domain /\ Head(q).body \in Ontology
  BY <1>1 DEF Item
<1>r. Request("import", Head(q).domain) \in CallState
  BY <1>2, RequestForm DEF Operation
<1>3. k \in CallState
  BY <1>1, <1>2, <1>r DEF ImportItem, CallState
<1>4. /\ k.op = "import" /\ k.stage = "get" /\ k.domain = Head(q).domain /\ k.to = None
      /\ k.body = Head(q).body /\ k.ids = {} /\ k.todo = {} /\ k.queue = q
  BY <1>2, RequestForm DEF ImportItem, CallState, Operation
<1>5. CallOK(k)
  BY <1>2, <1>4 DEF CallOK, Operation
<1>6. Touches(k) \subseteq {q[i].domain : i \in DOMAIN q}
  BY <1>1, <1>4 DEF Touches
<1> QED
  BY <1>3, <1>4, <1>5, <1>6

LEMMA NextImportType ==
  ASSUME TypeOK, NEW c \in Caller, Busy(c), call[c].op = "import", NextImport(c)
  PROVE  CallsOK'
<1>1. call[c].queue \in Seq(Item) /\ call[c].queue # << >>
  BY DEF TypeOK, CallState, CallOK, Busy
<1>2. Tail(call[c].queue) \in Seq(Item)
  BY <1>1
<1> QED
  BY <1>2, ItemForm, RefusedType DEF NextImport, TypeOK, CallsOK

-------------------------------------------------------------------------------
(* What a request of a call in progress does, seen from the other calls    *)

\* A request changes nothing of the domains its call is not about, and what it
\* stores has a version nobody has read yet.
Near(c) ==
  /\ \A d \in Domain \ Touches(call[c]) : schema'[d] = schema[d] /\ OfDomain(d)' = OfDomain(d)
  /\ ~Writes(call[c]) => schema' = schema
  /\ call[c].op = "read" => routing' = routing
  /\ now <= now'
  /\ \A d \in Domain : schema'[d] = schema[d] \/ schema'[d].version \notin 1 .. now

Continues(c) ==
  /\ call' = [call EXCEPT ![c] = call'[c]]
  /\ Busy(c)' /\ call'[c].op = call[c].op
  /\ Touches(call'[c]) \subseteq Touches(call[c])
  /\ call[c].op = "patch" =>
       call'[c].domain = call[c].domain /\ call'[c].expected = call[c].expected
  /\ UNCHANGED <<alone, settled, known>>

Read(c) ==
  \E d \in Domain : \E b, s :
    /\ view' = [view EXCEPT ![c] = [domain |-> d, body |-> b,
                                   version |-> schema[d].version, sound |-> s]]
    /\ s => Exists(d) /\ b = schema[d].body
    /\ call[c].op = "read"

\* A request of c keeps to the domains of c; it leaves c on course, or ends the
\* call with nothing but the truth about the domains it names.
Proper(c) ==
  /\ Busy(c) /\ Near(c)
  /\ \/ Continues(c) /\ (c \in alone => OnCourse(c)') /\ view' = view
     \/ \E ordered \in SUBSET (Domain \cap Touches(call[c])) : \E facts :
          /\ End(c, ordered, facts)
          /\ DOMAIN facts \subseteq Touches(call[c])
          /\ c \in alone =>
               /\ \A d \in ordered : OfDomain(d)' = Wanted(d)'
               /\ \A d \in DOMAIN facts : schema'[d].body = facts[d]
          /\ view' = view \/ Read(c)

LEMMA TouchesItsDomains ==
  ASSUME TypeOK, NEW c \in Caller, Busy(c)
  PROVE  /\ call[c].domain \in Domain /\ call[c].domain \in Touches(call[c])
         /\ call[c].op = "rename" => call[c].to \in Domain /\ call[c].to \in Touches(call[c])
  BY NoneAssumption DEF TypeOK, CallOK, Busy, Touches

LEMMA TouchesOnlyDomains ==
  ASSUME NEW k \in CallState
  PROVE  Touches(k) \subseteq Domain
<1>1. k.domain \in Domain \cup {None} /\ k.to \in Domain \cup {None} /\ k.queue \in Seq(Item)
  BY DEF CallState
<1>a. \A i \in DOMAIN k.queue : k.queue[i] \in Item
  BY <1>1, ElementOfSeq
<1>2. \A i \in DOMAIN k.queue : k.queue[i].domain \in Domain
  BY <1>a DEF Item
<1> QED
  BY <1>1, <1>2 DEF Touches

LEMMA QuietIsNear ==
  ASSUME TypeOK, NEW c \in Caller, UNCHANGED store
  PROVE  Near(c)
  BY DEF Near, store, OfDomain, TypeOK

LEMMA StampIsNear ==
  ASSUME TypeOK, NEW c \in Caller, NEW d \in Domain \cap Touches(call[c]), NEW o,
         Stamp(d, o), Writes(call[c])
  PROVE  Near(c)
<1>1. routing' = routing /\ now' = now + 1 /\ now \in Nat
  BY DEF Stamp, TypeOK
<1>2. /\ \A e \in Domain \ {d} : schema'[e] = schema[e]
      /\ schema'[d].version = now + 1
  BY DEF Stamp, TypeOK
<1> QED
  BY <1>1, <1>2 DEF Near, OfDomain, Writes

LEMMA NearIsProper ==
  ASSUME TypeOK, NEW c \in Caller, Busy(c), Near(c), view' = view,
         Refused(c) \/ Abort(c)
  PROVE  Proper(c)
<1>1. End(c, {}, << >>)
  BY DEF Refused, Abort
<1>2. DOMAIN << >> = {}
  OBVIOUS
<1> QED
  BY <1>1, <1>2 DEF Proper

LEMMA GotoContinues ==
  ASSUME TypeOK, NEW c \in Caller, NEW st, st # "idle", Goto(c, st)
  PROVE  /\ Continues(c)
         /\ call'[c] = [call[c] EXCEPT !.stage = st]
  BY DEF TypeOK, CallState, Goto, Continues, Touches, Busy

LEMMA NextImportContinues ==
  ASSUME TypeOK, NEW c \in Caller, Busy(c), call[c].op = "import", Near(c), view' = view,
         NextImport(c)
  PROVE  Proper(c)
<1> DEFINE q == call[c].queue
<1>1. q \in Seq(Item) /\ q # << >> /\ Tail(q) \in Seq(Item)
  BY DEF TypeOK, CallState, CallOK, Busy
<1>2. CASE Tail(q) = << >>
  BY <1>2, NearIsProper DEF NextImport
<1>3. CASE Tail(q) # << >>
  <2>1. /\ call' = [call EXCEPT ![c] = ImportItem(Tail(q))]
        /\ call'[c] = ImportItem(Tail(q))
        /\ UNCHANGED <<alone, settled, known>>
    BY <1>3 DEF NextImport, TypeOK
  <2>2. \A i \in DOMAIN Tail(q) : i + 1 \in DOMAIN q /\ Tail(q)[i] = q[i + 1] /\ q[i + 1] \in Item
    BY <1>1
  <2>3. {Tail(q)[i].domain : i \in DOMAIN Tail(q)} \subseteq Touches(call[c])
    BY <2>2, NoneAssumption DEF Touches, Item
  <2>4. Continues(c)
    BY <1>1, <1>3, <2>1, <2>3, ItemForm DEF Continues, Busy
  <2>5. OnCourse(c)'
    BY <1>1, <1>3, <2>1, ItemForm DEF OnCourse
  <2> QED
    BY <2>4, <2>5 DEF Proper
<1> QED
  BY <1>2, <1>3

-------------------------------------------------------------------------------
(* What a proper request keeps                                             *)

\* A call on course stays on course when its domains and its view are left alone.
LEMMA CourseFrame ==
  ASSUME TypeOK, NEW c \in Caller, Busy(c), OnCourse(c), call'[c] = call[c],
         \A d \in Domain \cap Touches(call[c]) :
           schema'[d] = schema[d] /\ OfDomain(d)' = OfDomain(d)
  PROVE  OnCourse(c)'
<1> DEFINE k == call[c]
<1>1. /\ k.domain \in Domain
      /\ schema'[k.domain] = schema[k.domain] /\ OfDomain(k.domain)' = OfDomain(k.domain)
      /\ Exists(k.domain)' <=> Exists(k.domain)
  BY TouchesItsDomains DEF Exists
<1>2. k.op = "rename" => schema'[k.to] = schema[k.to] /\ (Exists(k.to)' <=> Exists(k.to))
  BY TouchesItsDomains DEF Exists
<1>3. Refreshed(k)' = Refreshed(k)
  BY DEF Refreshed
<1>4. \A t \in Refreshed(k) : t \in OfDomain(k.domain) <=> t \in routing
  BY <1>1, PassagesType DEF Refreshed, OfDomain, TypeOK, CallState
<1>5. \A t \in Refreshed(k) : t \in OfDomain(k.domain)' <=> t \in routing'
  BY <1>1, PassagesType DEF Refreshed, OfDomain, TypeOK, CallState
<1>6. k.stage = "write_to" => k.op = "rename"
  BY DEF TypeOK, CallOK
<1> HIDE DEF k
<1> QED
  BY <1>1, <1>2, <1>3, <1>4, <1>5, <1>6 DEF OnCourse, k

\* The others go on as before, and about other domains.
LEMMA Others ==
  ASSUME ServiceInv, NEW c \in Caller, Proper(c)
  PROVE  /\ \A x \in Caller \ {c} : call'[x] = call[x] /\ view'[x] = view[x]
         /\ c \in alone => \A x \in Caller \ {c} :
              Busy(x) => Touches(call[c]) \cap Touches(call[x]) = {}
         /\ \A x \in alone \ {c} : Busy(x) => Touches(call[c]) \cap Touches(call[x]) = {}
         /\ alone' \subseteq alone \cup {c}
         /\ Busy(c)' => alone' = alone /\ Continues(c)
  BY DEF ServiceInv, TypeOK, Proper, Continues, End, Apart, Read, Busy, Idle

LEMMA ProperApart ==
  ASSUME ServiceInv, NEW c \in Caller, Proper(c)
  PROVE  Apart'
<1> SUFFICES ASSUME NEW a \in alone', NEW x \in Caller \ {a}, Busy(a)', Busy(x)'
             PROVE  Touches(call'[a]) \cap Touches(call'[x]) = {}
  BY DEF Apart
<1>1. a \in Caller /\ (a = c => c \in alone) /\ (a # c => a \in alone)
  BY Others DEF ServiceInv, TypeOK
<1>2. \A y \in {a, x} : Touches(call'[y]) \subseteq Touches(call[y]) /\ Busy(y)
  BY <1>1, Others DEF Continues, Proper, Busy
<1>3. Touches(call[a]) \cap Touches(call[x]) = {}
  BY <1>1, <1>2, Others DEF ServiceInv, Apart
<1> QED
  BY <1>2, <1>3

LEMMA ProperReserved ==
  ASSUME ServiceInv, NEW c \in Caller, Proper(c)
  PROVE  Reserved'
<1> SUFFICES ASSUME NEW x \in Caller, Busy(x)', NEW d \in Touches(call'[x])
             PROVE  /\ Writes(call'[x]) => known'[d] = Unknown
                    /\ call'[x].op # "read" => d \notin settled'
  BY DEF Reserved
<1>1. CASE Continues(c)
  <2>1. d \in Touches(call[x]) /\ Busy(x) /\ call'[x].op = call[x].op
    BY <1>1, Others DEF Continues, Busy, Proper
  <2> QED
    BY <1>1, <2>1 DEF Continues, ServiceInv, Reserved, Writes
<1>2. CASE ~Continues(c)
  <2>1. x # c /\ call'[x] = call[x] /\ Busy(x) /\ d \in Touches(call[x])
    BY <1>2, Others DEF Busy
  <2>2. \E ordered \in SUBSET (Domain \cap Touches(call[c])) : \E facts :
          End(c, ordered, facts) /\ DOMAIN facts \subseteq Touches(call[c])
    BY <1>2 DEF Proper
  <2>3. c \in alone => d \notin Touches(call[c])
    BY <2>1, Others
  <2>4. (d \in settled' => d \in settled) /\ (d \in Domain => known'[d] = known[d])
    BY <2>2, <2>3 DEF End
  <2>5. d \in Domain
    BY <2>1, TouchesOnlyDomains DEF ServiceInv, TypeOK
  <2> QED
    BY <2>1, <2>4, <2>5 DEF ServiceInv, Reserved
<1> QED
  BY <1>1, <1>2

LEMMA ProperProgress ==
  ASSUME ServiceInv, NEW c \in Caller, Proper(c)
  PROVE  Progress'
<1> SUFFICES ASSUME NEW a \in alone', Busy(a)' PROVE OnCourse(a)'
  BY DEF Progress
<1>1. CASE a = c
  BY <1>1, Others DEF Proper, End, Busy, Idle, ServiceInv, TypeOK
<1>2. CASE a # c
  <2>1. a \in alone /\ a \in Caller /\ call'[a] = call[a] /\ Busy(a)
    BY <1>2, Others DEF ServiceInv, TypeOK, Busy
  <2>2. Touches(call[c]) \cap Touches(call[a]) = {}
    BY <1>2, <2>1, Others
  <2>3. \A d \in Domain \cap Touches(call[a]) :
          schema'[d] = schema[d] /\ OfDomain(d)' = OfDomain(d)
    BY <2>2 DEF Proper, Near
  <2> QED
    BY <2>1, <2>3, CourseFrame DEF ServiceInv, Progress
<1> QED
  BY <1>1, <1>2

LEMMA ProperExpects ==
  ASSUME ServiceInv, NEW c \in Caller, Proper(c)
  PROVE  ExpectsItsView'
<1> SUFFICES ASSUME NEW x \in Caller, call'[x].op = "patch", call'[x].expected # None
             PROVE  view'[x].domain = call'[x].domain /\ view'[x].version = call'[x].expected
  BY DEF ExpectsItsView
<1>1. CASE x # c
  BY <1>1, Others DEF ServiceInv, ExpectsItsView
<1>2. CASE x = c
  <2>1. CASE call'[c] = Idle
    BY <1>2, <2>1 DEF Idle
  <2>2. CASE call'[c] # Idle
    BY <1>2, <2>2 DEF Proper, Continues, End, ServiceInv, TypeOK, ExpectsItsView
  <2> QED
    BY <2>1, <2>2
<1> QED
  BY <1>1, <1>2

LEMMA ProperViews ==
  ASSUME ServiceInv, TypeOK', NEW c \in Caller, Proper(c)
  PROVE  ViewsHold'
<1> SUFFICES ASSUME NEW x \in Caller, view'[x].sound
             PROVE  /\ view'[x].domain \in Domain
                    /\ view'[x].version \in 1 .. now'
                    /\ schema'[view'[x].domain].version = view'[x].version =>
                         schema'[view'[x].domain].body = view'[x].body
  BY DEF ViewsHold
<1>1. now \in Nat /\ now' \in Nat /\ now <= now'
  BY DEF Proper, Near, TypeOK, ServiceInv
<1>2. CASE view'[x] = view[x]
  <2>1. /\ view[x].domain \in Domain /\ view[x].version \in 1 .. now
        /\ schema[view[x].domain].version = view[x].version =>
             schema[view[x].domain].body = view[x].body
    BY <1>2 DEF ServiceInv, ViewsHold
  <2>2. \/ schema'[view[x].domain] = schema[view[x].domain]
        \/ schema'[view[x].domain].version \notin 1 .. now
    BY <2>1 DEF Proper, Near
  <2> QED
    BY <1>1, <1>2, <2>1, <2>2
<1>3. CASE view'[x] # view[x]
  <2>1. x = c /\ Read(c)
    BY <1>3, Others DEF Proper
  <2>2. schema' = schema
    BY <2>1 DEF Proper, Near, Read, Writes
  <2>b. PICK d \in Domain : \E b, s :
          /\ view' = [view EXCEPT ![c] = [domain |-> d, body |-> b,
                                         version |-> schema[d].version, sound |-> s]]
          /\ s => Exists(d) /\ b = schema[d].body
    BY <2>1 DEF Read
  <2>3. PICK b, s :
          /\ view' = [view EXCEPT ![c] = [domain |-> d, body |-> b,
                                         version |-> schema[d].version, sound |-> s]]
          /\ s => Exists(d) /\ b = schema[d].body
    BY <2>b
  <2>a. view'[c] = [domain |-> d, body |-> b, version |-> schema[d].version, sound |-> s]
    BY <2>3 DEF ServiceInv, TypeOK
  <2>4. Exists(d) /\ schema[d].version \in 1 .. now
    BY <2>1, <2>3, StoredBody, TypeParts DEF ServiceInv
  <2> QED
    BY <1>1, <2>1, <2>2, <2>3, <2>a, <2>4
<1> QED
  BY <1>2, <1>3

LEMMA ProperAcknowledged ==
  ASSUME ServiceInv, NEW c \in Caller, Proper(c)
  PROVE  AcknowledgedStays'
<1> SUFFICES ASSUME NEW d \in Domain, known'[d] # Unknown
             PROVE  schema'[d].body = known'[d]
  BY DEF AcknowledgedStays
<1>1. CASE known'[d] = known[d]
  <2>1. ~(Writes(call[c]) /\ d \in Touches(call[c]))
    BY <1>1 DEF ServiceInv, Reserved, Proper
  <2>2. schema'[d] = schema[d]
    BY <2>1 DEF Proper, Near
  <2> QED
    BY <1>1, <2>2 DEF ServiceInv, AcknowledgedStays
<1>2. CASE known'[d] # known[d]
  BY <1>2 DEF Proper, Continues, End
<1> QED
  BY <1>1, <1>2

LEMMA ProperIndex ==
  ASSUME ServiceInv, NEW c \in Caller, Proper(c)
  PROVE  IndexFollows'
<1> SUFFICES ASSUME NEW d \in settled' PROVE OfDomain(d)' = Wanted(d)'
  BY DEF IndexFollows
<1>1. CASE d \in settled
  <2>1. d \in Domain /\ OfDomain(d) = Wanted(d)
    BY <1>1 DEF ServiceInv, TypeOK, IndexFollows
  <2>2. call[c].op = "read" \/ d \notin Touches(call[c])
    BY <1>1 DEF ServiceInv, Reserved, Proper
  <2>3. schema'[d] = schema[d] /\ OfDomain(d)' = OfDomain(d)
    BY <2>1, <2>2 DEF Proper, Near, Writes, OfDomain
  <2> QED
    BY <2>1, <2>3 DEF Wanted, Exists
<1>2. CASE d \notin settled
  BY <1>2 DEF Proper, Continues, End
<1> QED
  BY <1>1, <1>2

LEMMA ProperKeeps ==
  ASSUME ServiceInv, TypeOK', NEW c \in Caller, Proper(c)
  PROVE  ServiceInv'
  BY ProperApart, ProperReserved, ProperProgress, ProperExpects, ProperViews,
     ProperAcknowledged, ProperIndex DEF ServiceInv

-------------------------------------------------------------------------------
(* Each request is proper                                                  *)

\* The call goes on as k, which differs from what it was in what it has gathered.
GoesOnAs(c, k) ==
  /\ call' = [call EXCEPT ![c] = k]
  /\ UNCHANGED <<alone, settled, known, view>>
  /\ k \in CallState /\ CallOK(k) /\ k.stage # "idle"
  /\ k.op = call[c].op /\ k.domain = call[c].domain /\ k.to = call[c].to
  /\ k.queue = call[c].queue /\ k.expected = call[c].expected

LEMMA GoesOnProperly ==
  ASSUME ServiceInv, NEW c \in Caller, Busy(c), Near(c), StoreOK', NEW k, GoesOnAs(c, k),
         c \in alone => OnCourse(c)'
  PROVE  TypeOK' /\ Proper(c)
<1>1. call'[c] = k
  BY DEF ServiceInv, TypeOK, GoesOnAs
<1>2. Continues(c)
  BY <1>1 DEF Continues, GoesOnAs, Busy, Touches
<1>3. CallsOK' /\ view' \in [Caller -> ViewState]
  BY DEF GoesOnAs, ServiceInv, TypeOK, CallsOK
<1> QED
  BY <1>2, <1>3 DEF Proper, TypeOK, StoreOK, CallsOK, GoesOnAs

LEMMA GotoForm ==
  ASSUME TypeOK, NEW c \in Caller, NEW st \in Stage \ {"idle"}, Goto(c, st), view' = view,
         CallOK([call[c] EXCEPT !.stage = st])
  PROVE  /\ GoesOnAs(c, [call[c] EXCEPT !.stage = st])
         /\ call'[c] \in CallState
         /\ call'[c].stage = st
         /\ call'[c].op = call[c].op /\ call'[c].domain = call[c].domain
         /\ call'[c].to = call[c].to /\ call'[c].body = call[c].body
         /\ call'[c].expected = call[c].expected
         /\ call'[c].ids = call[c].ids /\ call'[c].todo = call[c].todo
<1>1. call[c] \in CallState /\ [call[c] EXCEPT !.stage = st] \in CallState
  BY DEF TypeOK, CallState
<1>2. /\ call' = [call EXCEPT ![c] = [call[c] EXCEPT !.stage = st]]
      /\ call'[c] = [call[c] EXCEPT !.stage = st]
  BY DEF Goto, TypeOK
<1>3. UNCHANGED <<alone, settled, known, view>>
  BY DEF Goto
<1> HIDE DEF Goto
<1> QED
  BY <1>1, <1>2, <1>3 DEF GoesOnAs, CallState

LEMMA GotoProperly ==
  ASSUME ServiceInv, NEW c \in Caller, Busy(c), Near(c), StoreOK', view' = view,
         NEW st \in Stage \ {"idle"}, Goto(c, st), CallOK([call[c] EXCEPT !.stage = st]),
         c \in alone => OnCourse(c)'
  PROVE  TypeOK' /\ Proper(c)
  BY GotoForm, GoesOnProperly DEF ServiceInv

\* The call is over, and nothing is said of its domains.
LEMMA EndsProperly ==
  ASSUME ServiceInv, NEW c \in Caller, Busy(c), Near(c), StoreOK', view' = view,
         Refused(c) \/ Abort(c)
  PROVE  TypeOK' /\ Proper(c)
  BY RefusedType, NearIsProper DEF ServiceInv, TypeOK, StoreOK, CallsOK

LEMMA QuietRequest ==
  ASSUME ServiceInv, NEW c \in Caller, Busy(c), UNCHANGED store
  PROVE  /\ TypeOK /\ Near(c) /\ StoreOK' /\ StoreOK
         /\ call[c].domain \in Domain /\ call[c] \in CallState /\ CallOK(call[c])
         /\ c \in alone => OnCourse(c)
         /\ \A d : Exists(d)' = Exists(d) /\ OfDomain(d)' = OfDomain(d)
  BY QuietIsNear, TouchesItsDomains
     DEF ServiceInv, TypeOK, StoreOK, store, Exists, OfDomain, Progress

LEMMA GetStep ==
  ASSUME ServiceInv, NEW c \in Caller, Get(c)
  PROVE  TypeOK' /\ Proper(c)
<1> DEFINE k == call[c]
<1>0. Busy(c) /\ k.stage = "get" /\ UNCHANGED <<store, view, calls>>
  BY DEF Get, Busy
<1>1. /\ Near(c) /\ StoreOK' /\ StoreOK /\ TypeOK
      /\ k.domain \in Domain /\ k \in CallState /\ CallOK(k)
  BY <1>0, QuietRequest
<1>3. CASE Refused(c)
  BY <1>0, <1>1, <1>3, EndsProperly
<1>4. CASE k.op = "import" /\ NextImport(c)
  BY <1>0, <1>1, <1>4, NextImportType, NextImportContinues DEF TypeOK, StoreOK, CallsOK
<1>5. CASE k.op \in {"create", "import", "replace"} /\ Goto(c, "put")
  <2>1. CallOK([k EXCEPT !.stage = "put"])
    BY <1>0, <1>1, <1>5 DEF CallOK, CallState
  <2>2. OnCourse(c)'
    BY <1>0, <1>1, <1>5, <2>1, GotoForm DEF OnCourse, Stage
  <2> QED
    BY <1>0, <1>1, <1>5, <2>1, <2>2, GotoProperly DEF Stage
<1>6. CASE k.op = "refresh" /\ ~Exists(k.domain) /\ Goto(c, "list_ids")
  <2>1. CallOK([k EXCEPT !.stage = "list_ids"])
    BY <1>0, <1>1, <1>6 DEF CallOK, CallState
  <2>a. k.body = None /\ schema' = schema /\ schema[k.domain].body = None
    BY <1>0, <1>1, <1>6, StoredBody DEF CallOK, store
  <2>2. OnCourse(c)'
    BY <1>0, <1>1, <1>6, <2>1, <2>a, GotoForm DEF OnCourse, Stage
  <2> QED
    BY <1>0, <1>1, <1>6, <2>1, <2>2, GotoProperly DEF Stage
<1>7. CASE k.op = "delete" /\ Goto(c, "filter")
  <2>1. CallOK([k EXCEPT !.stage = "filter"])
    BY <1>0, <1>1, <1>7 DEF CallOK, CallState
  <2>2. OnCourse(c)'
    BY <1>0, <1>1, <1>7, <2>1, GotoForm DEF OnCourse, Stage
  <2> QED
    BY <1>0, <1>1, <1>7, <2>1, <2>2, GotoProperly DEF Stage
<1> DEFINE st == IF k.op = "rename" THEN "get_to"
                 ELSE IF k.op = "refresh" THEN "list_ids" ELSE "list"
           k2 == [k EXCEPT !.body = schema[k.domain].body, !.stage = st]
<1>8. CASE /\ Exists(k.domain) /\ k.op \in {"patch", "read", "rename", "refresh"}
           /\ call' = [call EXCEPT ![c].body = schema[k.domain].body, ![c].stage = st]
           /\ UNCHANGED <<alone, settled, known, faults>>
  <2>0. st \in {"get_to", "list_ids", "list"}
    OBVIOUS
  <2> HIDE DEF st
  <2>1. call' = [call EXCEPT ![c] = k2] /\ call'[c] = k2
    BY <1>8, <1>1 DEF TypeOK, CallState, st
  <2>2. schema[k.domain].body \in Ontology
    BY <1>1, <1>8, StoredBody
  <2>3. k2 \in CallState
    BY <1>1, <2>0, <2>2 DEF CallState, Stage
  <2>4. /\ k2.stage = st /\ k2.body = schema[k.domain].body /\ k2.op = k.op
        /\ k2.domain = k.domain /\ k2.to = k.to /\ k2.queue = k.queue
        /\ k2.expected = k.expected /\ k2.patch = k.patch /\ k2.ids = k.ids /\ k2.todo = k.todo
    BY <1>1 DEF CallState
  <2>5. st \in {"get_to", "list_ids", "list"} /\ (k.op = "refresh" <=> st = "list_ids")
        /\ (k.op = "rename" <=> st = "get_to")
    BY <1>8 DEF st
  <2> HIDE DEF k2
  <2>6. CallOK(k2)
    BY <1>0, <1>1, <1>8, <2>2, <2>4, <2>5 DEF CallOK
  <2>7. GoesOnAs(c, k2)
    BY <1>0, <1>8, <2>1, <2>3, <2>4, <2>5, <2>6 DEF GoesOnAs
  <2>8. schema' = schema
    BY <1>0 DEF store
  <2>9. OnCourse(c)'
    BY <1>8, <2>1, <2>4, <2>5, <2>8 DEF OnCourse, Exists
  <2> QED
    BY <1>0, <1>1, <2>7, <2>9, GoesOnProperly
<1> HIDE DEF k
<1> QED
  BY <1>0, <1>3, <1>4, <1>5, <1>6, <1>7, <1>8 DEF Get, k

LEMMA ApplyType ==
  ASSUME NEW o \in Ontology, NEW p \in Patch
  PROVE  Apply(o, p) \in Ontology
<1>1. /\ p.desc \in Desc \cup {None} /\ p.props \in (SUBSET Prop) \cup {None}
      /\ o.desc \in Desc /\ o.props \in SUBSET Prop
  BY OntologyConstants DEF Ontology
<1> QED
  BY <1>1 DEF Apply, Ontology

LEMMA ListStep ==
  ASSUME ServiceInv, NEW c \in Caller, List(c)
  PROVE  TypeOK' /\ Proper(c)
<1> DEFINE k == call[c]
           version == schema[k.domain].version
           candidate == Apply(k.body, k.patch)
<1>0. Busy(c) /\ k.stage = "list" /\ UNCHANGED store
  BY DEF List, Busy
<1>1. /\ Near(c) /\ StoreOK' /\ StoreOK /\ TypeOK
      /\ k.domain \in Domain /\ k \in CallState /\ CallOK(k)
      /\ c \in alone => Exists(k.domain) /\ k.body = schema[k.domain].body
  BY <1>0, QuietRequest DEF OnCourse
<1>2. ASSUME k.op = "read",
             view' = [view EXCEPT ![c] = [domain |-> k.domain, body |-> k.body,
                                          version |-> version, sound |-> c \in alone]],
             Refused(c)
      PROVE  TypeOK' /\ Proper(c)
  <2>1. [domain |-> k.domain, body |-> k.body, version |-> version, sound |-> c \in alone]
          \in ViewState
    <3>1. k.body \in Ontology /\ version \in Nat /\ (c \in alone) \in BOOLEAN
      BY <1>0, <1>1, StoredBody DEF CallOK
    <3> QED
      BY <1>1, <3>1 DEF ViewState
  <2>2. view' \in [Caller -> ViewState]
    BY <1>1, <1>2, <2>1 DEF TypeOK
  <2>3. CallsOK'
    BY <1>1, <1>2, RefusedType
  <2>4. Read(c)
    BY <1>1, <1>2 DEF Read
  <2>5. End(c, {}, << >>) /\ DOMAIN << >> = {}
    BY <1>2 DEF Refused
  <2> QED
    BY <1>0, <1>1, <2>2, <2>3, <2>4, <2>5 DEF TypeOK, StoreOK, CallsOK, Proper
<1>3. CASE Refused(c) /\ view' = view
  BY <1>0, <1>1, <1>3, EndsProperly
<1> DEFINE k2 == [k EXCEPT !.body = candidate, !.stage = "put"]
<1>4. ASSUME k.op = "patch", view' = view, Guarded(k, version),
             call' = [call EXCEPT ![c].body = candidate, ![c].stage = "put"],
             UNCHANGED <<alone, settled, known, faults>>
      PROVE  TypeOK' /\ Proper(c)
  <2>1. call' = [call EXCEPT ![c] = k2] /\ call'[c] = k2
    BY <1>4, <1>1 DEF TypeOK, CallState
  <2>2. candidate \in Ontology
    BY <1>0, <1>1, <1>4, ApplyType DEF CallOK
  <2>3. k2 \in CallState
    BY <1>1, <2>2 DEF CallState, Stage
  <2>4. /\ k2.stage = "put" /\ k2.body = candidate /\ k2.op = k.op
        /\ k2.domain = k.domain /\ k2.to = k.to /\ k2.queue = k.queue
        /\ k2.expected = k.expected /\ k2.patch = k.patch /\ k2.ids = k.ids /\ k2.todo = k.todo
    BY <1>1 DEF CallState
  <2> HIDE DEF k2
  <2>5. CallOK(k2)
    BY <1>0, <1>1, <1>4, <2>2, <2>4 DEF CallOK
  <2>6. GoesOnAs(c, k2)
    BY <1>4, <2>1, <2>3, <2>4, <2>5 DEF GoesOnAs
  <2>7. OnCourse(c)'
    BY <1>0, <1>4, <2>1, <2>4 DEF OnCourse, Guarded, store
  <2> QED
    BY <1>0, <1>1, <2>6, <2>7, GoesOnProperly
<1> HIDE DEF k2
<1> QED
  BY <1>2, <1>3, <1>4 DEF List

LEMMA PutStep ==
  ASSUME ServiceInv, NEW c \in Caller, Put(c)
  PROVE  TypeOK' /\ Proper(c)
<1> DEFINE k == call[c]
<1>0. Busy(c) /\ k.stage = "put" /\ view' = view /\ Stamp(k.domain, k.body)
  BY DEF Put, Busy
<1>1. /\ TypeOK /\ k \in CallState /\ CallOK(k)
      /\ k.domain \in Domain /\ k.domain \in Touches(k)
  BY <1>0, TouchesItsDomains DEF ServiceInv, TypeOK
<1>2. k.body \in Ontology /\ Writes(k)
  BY <1>0, <1>1 DEF CallOK, Writes
<1>3. StoreOK' /\ Near(c)
  BY <1>0, <1>1, <1>2, StampType, StampIsNear
<1>4. CASE k.op = "import" /\ NextImport(c)
  BY <1>0, <1>1, <1>3, <1>4, NextImportType, NextImportContinues DEF TypeOK, StoreOK, CallsOK
<1>5. CASE End(c, {}, [d \in {k.domain} |-> k.body])
  <2>1. CallsOK'
    BY <1>1, <1>5, EndType
  <2>2. schema'[k.domain].body = k.body
    BY <1>0, <1>1 DEF Stamp, TypeOK
  <2> DEFINE facts == [d \in {k.domain} |-> k.body]
  <2>3. DOMAIN facts = {k.domain} /\ facts[k.domain] = k.body
    OBVIOUS
  <2> HIDE DEF facts
  <2>4. Proper(c)
    BY <1>0, <1>1, <1>3, <1>5, <2>2, <2>3 DEF Proper, facts
  <2> QED
    BY <1>0, <1>1, <1>3, <2>1, <2>4 DEF TypeOK, StoreOK, CallsOK
<1>6. CASE Abort(c)
  BY <1>0, <1>3, <1>6, EndsProperly
<1> QED
  BY <1>4, <1>5, <1>6 DEF Put

LEMMA GetToStep ==
  ASSUME ServiceInv, NEW c \in Caller, GetTo(c)
  PROVE  TypeOK' /\ Proper(c)
<1> DEFINE k == call[c]
<1>0. Busy(c) /\ k.stage = "get_to" /\ UNCHANGED <<store, view, calls>>
  BY DEF GetTo, Busy
<1>1. /\ Near(c) /\ StoreOK' /\ StoreOK /\ TypeOK /\ schema' = schema
      /\ k.domain \in Domain /\ k \in CallState /\ CallOK(k)
      /\ c \in alone => Exists(k.domain) /\ k.body = schema[k.domain].body
  BY <1>0, QuietRequest DEF OnCourse, store
<1>2. CASE Refused(c)
  BY <1>0, <1>1, <1>2, EndsProperly
<1>3. CASE ~Exists(k.to) /\ Goto(c, "write_to")
  <2>1. CallOK([k EXCEPT !.stage = "write_to"])
    BY <1>0, <1>1, <1>3 DEF CallOK, CallState
  <2>a. /\ call'[c].stage = "write_to" /\ call'[c].op = "rename" /\ call'[c].to = k.to
        /\ call'[c].domain = k.domain /\ call'[c].body = k.body
    BY <1>0, <1>1, <1>3, <2>1, GotoForm DEF Stage, CallOK
  <2>2. c \in alone => OnCourse(c)'
    BY <1>1, <1>3, <2>a DEF OnCourse, Exists
  <2> QED
    BY <1>0, <1>1, <1>3, <2>1, <2>2, GotoProperly DEF Stage
<1> QED
  BY <1>2, <1>3 DEF GetTo

LEMMA WriteToStep ==
  ASSUME ServiceInv, NEW c \in Caller, WriteTo(c)
  PROVE  TypeOK' /\ Proper(c)
<1> DEFINE k == call[c]
<1>0. Busy(c) /\ k.stage = "write_to" /\ view' = view /\ Stamp(k.to, k.body)
  BY DEF WriteTo, Busy
<1>1. /\ TypeOK /\ k \in CallState /\ CallOK(k) /\ k.op = "rename" /\ Writes(k)
      /\ k.to \in Domain /\ k.to \in Touches(k) /\ k.domain \in Domain /\ k.body \in Ontology
      /\ c \in alone => Exists(k.domain) /\ k.body = schema[k.domain].body /\ ~Exists(k.to)
  BY <1>0, TouchesItsDomains DEF ServiceInv, Progress, OnCourse, TypeOK, CallOK, Writes
<1>3. StoreOK' /\ Near(c)
  BY <1>0, <1>1, StampType, StampIsNear
<1>4. CASE Goto(c, "filter")
  <2>1. CallOK([k EXCEPT !.stage = "filter"])
    BY <1>0, <1>1 DEF CallOK, CallState
  <2>2. schema'[k.to].body = k.body /\ schema'[k.to].version = now + 1 /\ now + 1 # 0
    BY <1>0, <1>1 DEF Stamp, TypeOK
  <2>a. /\ call'[c].stage = "filter" /\ call'[c].op = "rename" /\ call'[c].to = k.to
        /\ call'[c].domain = k.domain /\ call'[c].body = k.body
    BY <1>0, <1>1, <1>4, <2>1, GotoForm DEF Stage
  <2>b. schema'[k.to] # Absent
    BY <2>2 DEF Absent
  <2>c. c \in alone => k.to # k.domain
    BY <1>1
  <2>3. c \in alone => OnCourse(c)'
    BY <2>2, <2>a, <2>b, <2>c DEF OnCourse, Exists
  <2> QED
    BY <1>0, <1>1, <1>3, <1>4, <2>1, <2>3, GotoProperly DEF Stage
<1>5. CASE Abort(c)
  BY <1>0, <1>3, <1>5, EndsProperly
<1> QED
  BY <1>4, <1>5 DEF WriteTo

LEMMA DeleteByFilterStep ==
  ASSUME ServiceInv, NEW c \in Caller, DeleteByFilter(c)
  PROVE  TypeOK' /\ Proper(c)
<1> DEFINE k == call[c]
<1>0. /\ Busy(c) /\ k.stage = "filter" /\ view' = view /\ now' = now
      /\ schema' = [schema EXCEPT ![k.domain] = Absent]
      /\ routing' = routing \ OfDomain(k.domain)
  BY DEF DeleteByFilter, Busy
<1>1. /\ TypeOK /\ k \in CallState /\ CallOK(k) /\ k.op \in {"rename", "delete"} /\ Writes(k)
      /\ k.domain \in Domain /\ k.domain \in Touches(k)
      /\ k.op = "rename" => k.to \in Domain
      /\ c \in alone /\ k.op = "rename" =>
           k.to # k.domain /\ Exists(k.to) /\ schema[k.to].body = k.body
  BY <1>0, TouchesItsDomains DEF ServiceInv, Progress, OnCourse, TypeOK, CallOK, Writes
<1>2. /\ schema'[k.domain] = Absent
      /\ \A e \in Domain \ {k.domain} : schema'[e] = schema[e]
      /\ schema \in [Domain -> [body : Ontology, version : 1 .. now] \cup {Absent}]
      /\ now \in Nat
  BY <1>0, <1>1 DEF TypeOK
<1>3. StoreOK'
  <2>1. schema' \in [Domain -> [body : Ontology, version : 1 .. now] \cup {Absent}]
    BY <1>0, <1>2
  <2> QED
    BY <1>0, <1>1, <2>1 DEF TypeOK, StoreOK
<1>4. /\ \A e : e # k.domain => OfDomain(e)' = OfDomain(e)
      /\ \A e : e = k.domain => OfDomain(e)' = {}
  BY <1>0 DEF OfDomain
<1>5. Near(c)
  <2>1. Absent.version \notin 1 .. now
    BY DEF Absent
  <2> QED
    BY <1>0, <1>1, <1>2, <1>4, <2>1 DEF Near, Writes
<1>6. CASE Goto(c, "list_ids")
  <2>1. CallOK([k EXCEPT !.stage = "list_ids"])
    BY <1>0, <1>1 DEF CallOK, CallState
  <2>2. /\ call'[c].stage = "list_ids" /\ call'[c].op = k.op /\ call'[c].to = k.to
        /\ call'[c].domain = k.domain /\ call'[c].body = k.body
    BY <1>0, <1>1, <1>6, <2>1, GotoForm DEF Stage
  <2>3. OfDomain(call[c].domain)' = {}
    BY <1>4, <2>2 DEF OfDomain
  <2>4. c \in alone /\ k.op = "rename" =>
          k.to # k.domain /\ Exists(k.to) /\ schema'[k.to] = schema[k.to]
    BY <1>1, <1>2
  <2>5. c \in alone => OnCourse(c)'
    BY <1>1, <1>2, <2>2, <2>3, <2>4 DEF OnCourse, Exists
  <2> QED
    BY <1>0, <1>1, <1>3, <1>5, <1>6, <2>1, <2>5, GotoProperly DEF Stage
<1>7. CASE Abort(c)
  BY <1>0, <1>3, <1>5, <1>7, EndsProperly
<1> QED
  BY <1>6, <1>7 DEF DeleteByFilter

LEMMA RefreshedType ==
  ASSUME NEW k \in CallState, k.stage # "idle", CallOK(k)
  PROVE  Refreshed(k) \subseteq Passage /\ \A p \in Refreshed(k) : p[1] = k.domain
  BY PassagesType DEF Refreshed, CallState, CallOK

LEMMA ListIdsStep ==
  ASSUME ServiceInv, NEW c \in Caller, ListIds(c)
  PROVE  TypeOK' /\ Proper(c)
<1> DEFINE k == call[c]
           gone == OfDomain(k.domain) \ Refreshed(k)
           st == IF Refreshed(k) = {} THEN "delete_ids" ELSE "missing"
           k2 == [k EXCEPT !.ids = gone, !.stage = st]
<1>0. Busy(c) /\ k.stage = "list_ids" /\ UNCHANGED <<store, view, calls, alone, settled, known>>
      /\ call' = [call EXCEPT ![c].ids = gone, ![c].stage = st]
  BY DEF ListIds, Busy
<1>1. /\ Near(c) /\ StoreOK' /\ StoreOK /\ TypeOK /\ schema' = schema /\ routing' = routing
      /\ k.domain \in Domain /\ k \in CallState /\ CallOK(k)
      /\ c \in alone => OnCourse(c)
  BY <1>0, QuietRequest DEF store
<1>2. gone \subseteq Passage /\ \A p \in gone : p[1] = k.domain
  BY <1>1 DEF OfDomain, TypeOK
<1>3. /\ st \in {"delete_ids", "missing"} /\ k.op \in {"rename", "delete", "refresh"}
      /\ st = "missing" => k.op = "refresh" /\ k.body \in Ontology
      /\ st = "delete_ids" => Refreshed(k) = {}
  BY <1>0, <1>1 DEF CallOK, Refreshed, CallState
<1> HIDE DEF st, gone
<1>4. call' = [call EXCEPT ![c] = k2] /\ call'[c] = k2
  BY <1>0, <1>1 DEF TypeOK, CallState
<1>5. k2 \in CallState
  BY <1>1, <1>2, <1>3 DEF CallState, Stage
<1>6. /\ k2.stage = st /\ k2.ids = gone /\ k2.body = k.body /\ k2.op = k.op
      /\ k2.domain = k.domain /\ k2.to = k.to /\ k2.queue = k.queue
      /\ k2.expected = k.expected /\ k2.patch = k.patch /\ k2.todo = k.todo
  BY <1>1 DEF CallState
<1> HIDE DEF k2
<1>7. CallOK(k2)
  BY <1>0, <1>1, <1>2, <1>3, <1>6 DEF CallOK
<1>8. GoesOnAs(c, k2)
  BY <1>0, <1>3, <1>4, <1>5, <1>6, <1>7 DEF GoesOnAs
<1>9. c \in alone => OnCourse(c)'
  <2> SUFFICES ASSUME c \in alone PROVE OnCourse(c)'
    OBVIOUS
  <2>1. /\ k.op = "refresh" => k.body = schema[k.domain].body
        /\ k.op = "rename" => k.to # k.domain /\ Exists(k.to) /\ schema[k.to].body = k.body
        /\ k.op # "refresh" => ~Exists(k.domain) /\ OfDomain(k.domain) = {}
    BY <1>0, <1>1 DEF OnCourse
  <2>2. Refreshed(k2) = Refreshed(k)
    BY <1>6 DEF Refreshed
  <2>3. /\ OfDomain(k.domain) \subseteq gone \cup Refreshed(k)
        /\ gone \cap Refreshed(k) = {}
    BY DEF gone
  <2> QED
    BY <1>1, <1>3, <1>4, <1>6, <2>1, <2>2, <2>3 DEF OnCourse, Exists, OfDomain, Refreshed
<1> QED
  BY <1>0, <1>1, <1>8, <1>9, GoesOnProperly

LEMMA MissingStep ==
  ASSUME ServiceInv, NEW c \in Caller, Missing(c)
  PROVE  TypeOK' /\ Proper(c)
<1> DEFINE k == call[c]
           missing == Refreshed(k) \ routing
           k2 == [k EXCEPT !.todo = missing, !.stage = "upsert"]
<1>0. Busy(c) /\ k.stage = "missing" /\ UNCHANGED <<store, view, calls>>
  BY DEF Missing, Busy
<1>1. /\ Near(c) /\ StoreOK' /\ StoreOK /\ TypeOK /\ schema' = schema /\ routing' = routing
      /\ k.domain \in Domain /\ k \in CallState /\ CallOK(k)
      /\ k.op = "refresh" /\ k.body \in Ontology
      /\ c \in alone => OnCourse(c)
  BY <1>0, QuietRequest DEF store, CallOK
<1>2. c \in alone =>
        /\ k.body = schema[k.domain].body
        /\ OfDomain(k.domain) \subseteq k.ids \cup Refreshed(k)
        /\ k.ids \cap Refreshed(k) = {}
  BY <1>0, <1>1 DEF OnCourse
<1>3. CASE missing = {} /\ Goto(c, "delete_ids")
  <2>1. CallOK([k EXCEPT !.stage = "delete_ids"])
    BY <1>0, <1>1 DEF CallOK, CallState
  <2>2. /\ call'[c].stage = "delete_ids" /\ call'[c].op = "refresh" /\ call'[c].ids = k.ids
        /\ call'[c].domain = k.domain /\ call'[c].body = k.body
    BY <1>0, <1>1, <1>3, <2>1, GotoForm DEF Stage
  <2>3. c \in alone => OnCourse(c)'
    BY <1>1, <1>2, <1>3, <2>2 DEF OnCourse, OfDomain, Refreshed
  <2> QED
    BY <1>0, <1>1, <1>3, <2>1, <2>3, GotoProperly DEF Stage
<1>4. CASE /\ missing # {} /\ call' = [call EXCEPT ![c].todo = missing, ![c].stage = "upsert"]
           /\ UNCHANGED <<alone, settled, known, faults>>
  <2>1. missing \subseteq Passage /\ \A p \in missing : p[1] = k.domain
    BY <1>0, <1>1, RefreshedType
  <2> HIDE DEF missing
  <2>2. call' = [call EXCEPT ![c] = k2] /\ call'[c] = k2
    BY <1>1, <1>4 DEF TypeOK, CallState
  <2>3. k2 \in CallState
    BY <1>1, <2>1 DEF CallState, Stage
  <2>4. /\ k2.stage = "upsert" /\ k2.todo = missing /\ k2.body = k.body /\ k2.op = k.op
        /\ k2.domain = k.domain /\ k2.to = k.to /\ k2.queue = k.queue
        /\ k2.expected = k.expected /\ k2.patch = k.patch /\ k2.ids = k.ids
    BY <1>1 DEF CallState
  <2> HIDE DEF k2
  <2>5. CallOK(k2)
    BY <1>0, <1>1, <1>4, <2>1, <2>4 DEF CallOK
  <2>6. GoesOnAs(c, k2)
    BY <1>0, <1>4, <2>2, <2>3, <2>4, <2>5 DEF GoesOnAs
  <2>7. Refreshed(k2) = Refreshed(k)
    BY <2>4 DEF Refreshed
  <2>8. missing = Refreshed(k) \ routing
    BY DEF missing
  <2>9. c \in alone => OnCourse(c)'
    BY <1>1, <1>2, <2>2, <2>4, <2>7, <2>8 DEF OnCourse, OfDomain, Refreshed
  <2> QED
    BY <1>0, <1>1, <2>6, <2>9, GoesOnProperly
<1> QED
  BY <1>3, <1>4 DEF Missing

LEMMA UpsertStep ==
  ASSUME ServiceInv, NEW c \in Caller, Upsert(c)
  PROVE  TypeOK' /\ Proper(c)
<1> DEFINE k == call[c]
<1>0. Busy(c) /\ k.stage = "upsert" /\ schema' = schema /\ now' = now /\ view' = view
  BY DEF Upsert, Busy
<1>1. /\ TypeOK /\ k \in CallState /\ CallOK(k) /\ k.op = "refresh" /\ k.body \in Ontology
      /\ k.domain \in Domain /\ k.domain \in Touches(k)
      /\ k.todo \subseteq Passage /\ \A p \in k.todo : p[1] = k.domain
  BY <1>0, TouchesItsDomains DEF ServiceInv, TypeOK, CallOK, CallState
<1>2. c \in alone =>
        /\ k.body = schema[k.domain].body
        /\ OfDomain(k.domain) \subseteq k.ids \cup Refreshed(k)
        /\ k.ids \cap Refreshed(k) = {}
        /\ k.todo \subseteq Refreshed(k) /\ Refreshed(k) \subseteq routing \cup k.todo
  BY <1>0, <1>1 DEF OnCourse, ServiceInv, Progress
<1>3. PICK chunk \in SUBSET k.todo :
        /\ routing' = routing \cup chunk
        /\ \/ /\ call' = [call EXCEPT ![c].todo = @ \ chunk,
                                        ![c].stage = IF chunk = k.todo THEN "delete_ids" ELSE @]
              /\ UNCHANGED <<alone, settled, known, faults>>
           \/ Abort(c)
  BY DEF Upsert
<1>4. StoreOK'
  BY <1>0, <1>1, <1>3 DEF StoreOK, TypeOK
<1>5. Near(c)
  BY <1>0, <1>1, <1>3 DEF Near, OfDomain, TypeOK
<1>6. CASE Abort(c)
  BY <1>0, <1>4, <1>5, <1>6, EndsProperly
<1> DEFINE st == IF chunk = k.todo THEN "delete_ids" ELSE "upsert"
           left == k.todo \ chunk
           k2 == [k EXCEPT !.todo = left, !.stage = st]
<1>7. CASE ~Abort(c)
  <2>1. /\ call' = [call EXCEPT ![c].todo = left, ![c].stage = st]
        /\ UNCHANGED <<alone, settled, known>>
    BY <1>0, <1>1, <1>3, <1>7 DEF TypeOK, CallState
  <2>2. /\ st \in {"upsert", "delete_ids"} /\ left \subseteq k.todo
        /\ st = "upsert" => left # {}
        /\ st = "delete_ids" => left = {}
        /\ k.todo \subseteq chunk \cup left
    OBVIOUS
  <2> HIDE DEF st, left
  <2>3. call' = [call EXCEPT ![c] = k2] /\ call'[c] = k2
    BY <1>1, <2>1 DEF TypeOK, CallState
  <2>4. k2 \in CallState
    BY <1>1, <2>2 DEF CallState, Stage
  <2>5. /\ k2.stage = st /\ k2.todo = left /\ k2.body = k.body /\ k2.op = k.op
        /\ k2.domain = k.domain /\ k2.to = k.to /\ k2.queue = k.queue
        /\ k2.expected = k.expected /\ k2.patch = k.patch /\ k2.ids = k.ids
    BY <1>1 DEF CallState
  <2> HIDE DEF k2
  <2>6. CallOK(k2)
    BY <1>0, <1>1, <2>2, <2>5 DEF CallOK
  <2>7. GoesOnAs(c, k2)
    BY <1>0, <2>1, <2>2, <2>3, <2>4, <2>5, <2>6 DEF GoesOnAs
  <2>8. c \in alone => OnCourse(c)'
    <3> SUFFICES ASSUME c \in alone PROVE OnCourse(c)'
      OBVIOUS
    <3>1. Refreshed(k2) = Refreshed(k) /\ chunk \subseteq Refreshed(k)
      BY <1>2, <2>5 DEF Refreshed
    <3>2. \A p \in routing' : p[1] = k.domain => p \in k.ids \cup Refreshed(k)
      BY <1>2, <1>3, <3>1 DEF OfDomain
    <3>3. OfDomain(call[c].domain)' \subseteq k.ids \cup Refreshed(k)
      BY <2>3, <2>5, <3>2 DEF OfDomain
    <3>4. left \subseteq Refreshed(k) /\ Refreshed(k) \subseteq routing' \cup left
      BY <1>2, <1>3, <2>2
    <3>5. Refreshed(call[c])' = Refreshed(k)
      BY <2>3, <2>5 DEF Refreshed
    <3> QED
      BY <1>0, <1>1, <1>2, <2>2, <2>3, <2>5, <3>3, <3>4, <3>5 DEF OnCourse
  <2> QED
    BY <1>0, <1>4, <1>5, <2>7, <2>8, GoesOnProperly
<1> QED
  BY <1>6, <1>7

LEMMA DeleteIdsStep ==
  ASSUME ServiceInv, NEW c \in Caller, DeleteIds(c)
  PROVE  TypeOK' /\ Proper(c)
<1> DEFINE k == call[c]
           facts == CASE k.op = "delete" -> [d \in {k.domain} |-> None]
                      [] k.op = "rename" -> [d \in {k.domain, k.to} |->
                                               IF d = k.to THEN k.body ELSE None]
                      [] OTHER -> << >>
<1>0. /\ Busy(c) /\ k.stage = "delete_ids" /\ schema' = schema /\ now' = now /\ view' = view
      /\ routing' = routing \ k.ids
  BY DEF DeleteIds, Busy
<1>1. /\ TypeOK /\ StoreOK /\ k \in CallState /\ CallOK(k) /\ k.op \in {"rename", "delete", "refresh"}
      /\ k.domain \in Domain /\ k.domain \in Touches(k)
      /\ k.op = "rename" => k.to \in Touches(k) /\ k.to \in Domain
      /\ \A p \in k.ids : p[1] = k.domain
  BY <1>0, TouchesItsDomains DEF ServiceInv, TypeOK, CallOK, StoreOK
<1>2. StoreOK'
  BY <1>0, <1>1 DEF StoreOK, TypeOK
<1>3. Near(c)
  BY <1>0, <1>1 DEF Near, OfDomain, TypeOK
<1>4. CASE Abort(c)
  BY <1>0, <1>2, <1>3, <1>4, EndsProperly
<1>5. CASE End(c, {k.domain}, facts)
  <2>1. /\ k.op = "delete" => facts = [d \in {k.domain} |-> None]
        /\ k.op = "rename" => facts = [d \in {k.domain, k.to} |-> IF d = k.to THEN k.body ELSE None]
        /\ k.op = "refresh" => facts = << >>
    OBVIOUS
  <2>a. DOMAIN facts \subseteq Touches(k)
    BY <1>1, <2>1
  <2>2. ASSUME c \in alone
        PROVE  /\ \A d \in {k.domain} : OfDomain(d)' = Wanted(d)'
               /\ \A d \in DOMAIN facts : schema'[d].body = facts[d]
    <3> DEFINE e == k.domain
    <3>1. OnCourse(c)
      BY <1>0, <2>2 DEF ServiceInv, Progress
    <3>2. k.op # "refresh" => ~Exists(e) /\ OfDomain(e) = {} /\ schema[e].body = None
      BY <1>0, <1>1, <3>1, StoredBody DEF OnCourse
    <3>3. k.op = "refresh" =>
            /\ k.body = schema[e].body
            /\ OfDomain(e) \subseteq k.ids \cup Refreshed(k)
            /\ k.ids \cap Refreshed(k) = {}
            /\ Refreshed(k) \subseteq routing
      BY <1>0, <1>1, <3>1 DEF OnCourse
    <3>4. k.op = "refresh" => Refreshed(k) = Wanted(e)
      BY <1>1, <3>3, StoredBody DEF Refreshed, Wanted
    <3>5. \A p \in Refreshed(k) : p[1] = e
      BY <1>0, <1>1, RefreshedType
    <3>6. {p \in routing \ k.ids : p[1] = e} = Wanted(e)
      <4>1. CASE k.op = "refresh"
        BY <3>3, <3>4, <3>5, <4>1 DEF OfDomain
      <4>2. CASE k.op # "refresh"
        BY <3>2, <4>2 DEF OfDomain, Wanted
      <4> QED
        BY <4>1, <4>2
    <3>7. call[c].domain = k.domain /\ Wanted(e) = IF schema[e] # Absent THEN PassagesOf(e, schema[e].body) ELSE {}
      BY DEF Wanted, Exists
    <3>8. \A d \in DOMAIN facts : schema'[d].body = facts[d]
      <4>1. CASE k.op = "rename"
        BY <1>0, <1>1, <2>1, <3>1, <3>2, <4>1 DEF OnCourse
      <4>2. CASE k.op # "rename"
        BY <1>0, <1>1, <2>1, <3>2, <4>2
      <4> QED
        BY <4>1, <4>2
    <3>9. \A d \in {e} : {p \in routing' : p[1] = d} =
                            IF schema'[d] # Absent THEN PassagesOf(d, schema'[d].body) ELSE {}
      BY <1>0, <3>6, <3>7
    <3> QED
      BY <3>8, <3>9 DEF OfDomain, Wanted, Exists
  <2> HIDE DEF facts
  <2>3. CallsOK'
    BY <1>1, <1>5, EndType
  <2>4. Proper(c)
    BY <1>0, <1>1, <1>3, <1>5, <2>a, <2>2 DEF Proper
  <2> QED
    BY <1>0, <1>1, <1>2, <2>3, <2>4 DEF TypeOK, StoreOK, CallsOK
<1> QED
  BY <1>4, <1>5 DEF DeleteIds

LEMMA RequestFailsStep ==
  ASSUME ServiceInv, NEW c \in Caller, RequestFails(c)
  PROVE  TypeOK' /\ Proper(c)
  BY QuietRequest, EndsProperly DEF RequestFails

-------------------------------------------------------------------------------
(* How a call begins                                                       *)

LEMMA BeginKeeps ==
  ASSUME ServiceInv, NEW c \in Caller, NEW k \in CallState, CallOK(k), k.stage = "get",
         k.op = "patch" /\ k.expected # None =>
           view[c].domain = k.domain /\ view[c].version = k.expected,
         Begin(c, k)
  PROVE  ServiceInv'
<1> DEFINE met == {x \in Caller \ {c} : Busy(x) /\ Touches(call[x]) \cap Touches(k) # {}}
<1>1. /\ UNCHANGED <<schema, routing, now, view>>
      /\ call' = [call EXCEPT ![c] = k] /\ call'[c] = k
      /\ \A x \in Caller \ {c} : call'[x] = call[x]
      /\ ~Busy(c)
  BY DEF Begin, store, ServiceInv, TypeOK
<1>2. alone' \subseteq alone /\ (met # {} => c \notin alone') /\ alone' \cap met = {}
  BY DEF Begin
<1>3. TypeOK'
  BY BeginType DEF ServiceInv
<1>4. Apart'
  <2> SUFFICES ASSUME NEW a \in alone', NEW x \in Caller \ {a}, Busy(a)', Busy(x)'
               PROVE  Touches(call'[a]) \cap Touches(call'[x]) = {}
    BY DEF Apart
  <2>1. a \in alone /\ a \in Caller
    BY <1>2 DEF ServiceInv, TypeOK
  <2>2. CASE a # c /\ x # c
    BY <1>1, <2>1, <2>2 DEF ServiceInv, Apart, Busy
  <2>3. CASE a = c
    BY <1>1, <1>2, <2>3 DEF Busy
  <2>4. CASE x = c
    BY <1>1, <1>2, <2>1, <2>4 DEF Busy
  <2> QED
    BY <2>2, <2>3, <2>4
<1>5. Reserved'
  <2> SUFFICES ASSUME NEW x \in Caller, Busy(x)', NEW d \in Touches(call'[x])
               PROVE  /\ Writes(call'[x]) => known'[d] = Unknown
                      /\ call'[x].op # "read" => d \notin settled'
    BY DEF Reserved
  <2>1. d \in Domain
    BY <1>3, TouchesOnlyDomains DEF TypeOK
  <2>2. settled' \subseteq settled /\ (known'[d] = known[d] \/ known'[d] = Unknown)
    BY <2>1 DEF Begin
  <2>3. CASE x = c
    BY <1>1, <2>1, <2>3 DEF Begin, Writes
  <2>4. CASE x # c
    BY <1>1, <2>2, <2>4 DEF ServiceInv, Reserved, Busy
  <2> QED
    BY <2>3, <2>4
<1>6. Progress'
  <2> SUFFICES ASSUME NEW a \in alone', Busy(a)' PROVE OnCourse(a)'
    BY DEF Progress
  <2>1. a \in alone /\ a \in Caller
    BY <1>2 DEF ServiceInv, TypeOK
  <2>2. CASE a = c
    BY <1>1, <2>2 DEF OnCourse
  <2>3. CASE a # c
    <3>1. /\ call'[a] = call[a] /\ Busy(a) /\ TypeOK /\ OnCourse(a)
          /\ \A d : schema'[d] = schema[d] /\ OfDomain(d)' = OfDomain(d)
      BY <1>1, <2>1, <2>3 DEF Busy, OfDomain, ServiceInv, Progress
    <3> QED
      BY <2>1, <3>1, CourseFrame
  <2> QED
    BY <2>2, <2>3
<1>7. ExpectsItsView'
  BY <1>1 DEF ServiceInv, ExpectsItsView
<1>8. ViewsHold'
  BY <1>1 DEF ServiceInv, ViewsHold
<1>9. AcknowledgedStays'
  <2>1. \A d \in Domain : known'[d] = known[d] \/ known'[d] = Unknown
    BY DEF Begin
  <2> QED
    BY <1>1, <2>1 DEF ServiceInv, AcknowledgedStays
<1>10. IndexFollows'
  <2>1. settled' \subseteq settled
    BY DEF Begin
  <2> QED
    BY <1>1, <2>1 DEF ServiceInv, IndexFollows, OfDomain, Wanted, Exists
<1> QED
  BY <1>3, <1>4, <1>5, <1>6, <1>7, <1>8, <1>9, <1>10 DEF ServiceInv

LEMMA CallsBegin ==
  ASSUME ServiceInv, NEW c \in Caller,
         \/ Create(c) \/ Replace(c) \/ PatchDomain(c) \/ GetWithVersion(c)
         \/ Rename(c) \/ Delete(c) \/ RefreshEmbeddings(c) \/ ImportBuiltin(c)
  PROVE  ServiceInv'
<1>1. ASSUME NEW op \in {"create", "replace"}, NEW d \in Domain, NEW o \in Drafts,
             Begin(c, [Request(op, d) EXCEPT !.body = o])
      PROVE  ServiceInv'
  <2> DEFINE r == Request(op, d)
             k == [r EXCEPT !.body = o]
  <2>1. r \in CallState /\ o \in Ontology
    BY <1>1, RequestForm, OntologyConstants DEF Operation
  <2>2. /\ r.op = op /\ r.stage = "get" /\ r.domain = d /\ r.ids = {} /\ r.todo = {}
    BY <1>1, RequestForm DEF Operation
  <2> HIDE DEF r
  <2>3. k \in CallState
    BY <2>1 DEF CallState
  <2>4. /\ k.op = op /\ k.stage = "get" /\ k.domain = d /\ k.ids = {} /\ k.todo = {} /\ k.body = o
    BY <2>1, <2>2 DEF CallState
  <2>5. Begin(c, k)
    BY <1>1 DEF r
  <2> HIDE DEF k
  <2>6. CallOK(k)
    BY <1>1, <2>1, <2>4 DEF CallOK, Operation
  <2> QED
    BY <1>1, <2>3, <2>4, <2>5, <2>6, BeginKeeps
<1>2. CASE PatchDomain(c)
  <2>1. PICK d \in Domain, p \in Patch :
          \E v \in {None} \cup (IF view[c].domain = d THEN {view[c].version} ELSE {}) :
            Begin(c, [Request("patch", d) EXCEPT !.patch = p, !.expected = v])
    BY <1>2 DEF PatchDomain
  <2>2. PICK v : /\ v = None \/ (view[c].domain = d /\ view[c].version = v)
                 /\ Begin(c, [Request("patch", d) EXCEPT !.patch = p, !.expected = v])
    BY <2>1
  <2> DEFINE r == Request("patch", d)
             k == [r EXCEPT !.patch = p, !.expected = v]
  <2>3. r \in CallState
    BY RequestForm DEF Operation
  <2>4. /\ r.op = "patch" /\ r.stage = "get" /\ r.domain = d /\ r.ids = {} /\ r.todo = {}
    BY RequestForm DEF Operation
  <2>5. Begin(c, k)
    BY <2>2
  <2> HIDE DEF r
  <2>6. v \in Nat \cup {None}
    BY <2>2 DEF ServiceInv, TypeOK, ViewState
  <2>7. k \in CallState
    BY <2>3, <2>6 DEF CallState
  <2>8. /\ k.op = "patch" /\ k.stage = "get" /\ k.domain = d /\ k.ids = {} /\ k.todo = {}
        /\ k.patch = p /\ k.expected = v
    BY <2>3, <2>4 DEF CallState
  <2> HIDE DEF k
  <2>9. CallOK(k)
    BY <2>8 DEF CallOK, Operation
  <2> QED
    BY <2>2, <2>5, <2>7, <2>8, <2>9, BeginKeeps
<1>3. ASSUME NEW op \in {"read", "delete", "refresh"}, NEW d \in Domain, Begin(c, Request(op, d))
      PROVE  ServiceInv'
  <2> DEFINE k == Request(op, d)
  <2>1. /\ k \in CallState /\ k.op = op /\ k.stage = "get" /\ k.domain = d /\ k.ids = {}
        /\ k.todo = {} /\ k.body = None
    BY <1>3, RequestForm DEF Operation
  <2>2. Begin(c, k)
    BY <1>3
  <2> HIDE DEF k
  <2>3. CallOK(k)
    BY <1>3, <2>1 DEF CallOK, Operation
  <2> QED
    BY <1>3, <2>1, <2>2, <2>3, BeginKeeps
<1>4. CASE Rename(c)
  <2>1. PICK d \in Domain, e \in Domain : Begin(c, [Request("rename", d) EXCEPT !.to = e])
    BY <1>4 DEF Rename
  <2> DEFINE r == Request("rename", d)
             k == [r EXCEPT !.to = e]
  <2>2. /\ r \in CallState
        /\ r.op = "rename" /\ r.stage = "get" /\ r.domain = d /\ r.ids = {} /\ r.todo = {}
    BY RequestForm DEF Operation
  <2>3. Begin(c, k)
    BY <2>1
  <2> HIDE DEF r
  <2>4. k \in CallState
    BY <2>2 DEF CallState
  <2>5. /\ k.op = "rename" /\ k.stage = "get" /\ k.domain = d /\ k.ids = {} /\ k.todo = {}
        /\ k.to = e
    BY <2>2 DEF CallState
  <2> HIDE DEF k
  <2>6. CallOK(k)
    BY <2>5 DEF CallOK, Operation
  <2> QED
    BY <2>3, <2>4, <2>5, <2>6, BeginKeeps
<1>5. CASE ImportBuiltin(c)
  <2>1. Builtin \in Seq(Item) /\ Builtin # << >> /\ Begin(c, ImportItem(Builtin))
    BY <1>5, OntologyConstants DEF ImportBuiltin, Item
  <2> QED
    BY <2>1, ItemForm, BeginKeeps
<1> QED
  BY <1>1, <1>2, <1>3, <1>4, <1>5
     DEF Create, Replace, GetWithVersion, Delete, RefreshEmbeddings

-------------------------------------------------------------------------------
(* The theorems                                                            *)

LEMMA ServiceInit == Init => ServiceInv
<1> SUFFICES ASSUME Init PROVE ServiceInv
  OBVIOUS
<1>1. \A d \in Domain :
        /\ d \in DOMAIN Stored => schema[d] = [body |-> Stored[d], version |-> 1]
        /\ d \notin DOMAIN Stored => schema[d] = Absent
  BY OntologyConstants DEF Init
<1>a. ASSUME NEW d \in DOMAIN Stored
      PROVE  /\ schema[d] \in [body : Ontology, version : 1 .. 1]
             /\ schema[d].version = 1 /\ schema[d].body = Stored[d]
  <2>1. d \in Domain /\ Stored[d] \in Ontology
    BY <1>a, OntologyConstants
  <2>2. schema[d] = [body |-> Stored[d], version |-> 1]
    BY <1>1, <1>a, <2>1
  <2> QED
    BY <2>1, <2>2
<1>2. TypeOK
  <2>a. \A d \in Domain : schema[d] \in [body : Ontology, version : 1 .. 1] \cup {Absent}
    BY <1>1, <1>a
  <2>1. schema \in [Domain -> [body : Ontology, version : 1 .. now] \cup {Absent}]
    <3>1. now = 1 /\ schema = [d \in Domain |-> schema[d]]
      BY DEF Init
    <3> QED
      BY <2>a, <3>1
  <2>2. routing \subseteq Passage
    BY PassagesType, OntologyConstants DEF Init
  <2>3. NoView \in ViewState
    BY DEF NoView, ViewState
  <2> QED
    BY <2>1, <2>2, <2>3, IdleType DEF Init, TypeOK
<1>3. \A c \in Caller : ~Busy(c)
  BY DEF Init, Busy, Idle
<1>4. Apart /\ Reserved /\ Progress
  BY <1>2, <1>3 DEF Apart, Reserved, Progress, TypeOK
<1>5. ExpectsItsView /\ ViewsHold
  BY DEF Init, ExpectsItsView, ViewsHold, Idle, NoView
<1>6. AcknowledgedStays
  BY DEF Init, AcknowledgedStays
<1>7. IndexFollows
  <2> SUFFICES ASSUME NEW d \in Domain PROVE OfDomain(d) = Wanted(d)
    BY DEF Init, IndexFollows
  <2>1. \A e \in DOMAIN Stored : e \in Domain /\ \A p \in PassagesOf(e, Stored[e]) : p[1] = e
    BY PassagesType, OntologyConstants
  <2>2. CASE d \in DOMAIN Stored
    <3>a. schema[d].version = 1 /\ schema[d].body = Stored[d] /\ Absent.version = 0
      BY <1>a, <2>2 DEF Absent
    <3>1. Wanted(d) = PassagesOf(d, Stored[d])
      BY <3>a DEF Wanted, Exists
    <3> QED
      BY <2>1, <2>2, <3>1 DEF Init, OfDomain
  <2>3. CASE d \notin DOMAIN Stored
    <3>1. Wanted(d) = {}
      BY <1>1, <2>3 DEF Wanted, Exists
    <3> QED
      BY <2>1, <2>3, <3>1 DEF Init, OfDomain
  <2> QED
    BY <2>2, <2>3
<1> QED
  BY <1>2, <1>4, <1>5, <1>6, <1>7 DEF ServiceInv

LEMMA RequestsAreProper ==
  ASSUME ServiceInv, NEW c \in Caller,
         \/ Get(c) \/ List(c) \/ Put(c)
         \/ GetTo(c) \/ WriteTo(c) \/ DeleteByFilter(c)
         \/ ListIds(c) \/ Missing(c) \/ Upsert(c) \/ DeleteIds(c)
         \/ RequestFails(c)
  PROVE  TypeOK' /\ Proper(c)
  BY GetStep, ListStep, PutStep, GetToStep, WriteToStep, DeleteByFilterStep, ListIdsStep,
     MissingStep, UpsertStep, DeleteIdsStep, RequestFailsStep

LEMMA ServiceNext == ServiceInv /\ [Next]_vars => ServiceInv'
<1> SUFFICES ASSUME ServiceInv, [Next]_vars PROVE ServiceInv'
  OBVIOUS
<1>1. ASSUME NEW c \in Caller, Step(c) PROVE ServiceInv'
  BY <1>1, CallsBegin, RequestsAreProper, ProperKeeps DEF Step
<1>2. CASE UNCHANGED vars
  BY <1>2 DEF vars, store, ServiceInv, TypeOK, Apart, Reserved, Progress, OnCourse,
     ExpectsItsView, ViewsHold, AcknowledgedStays, IndexFollows, Busy, Exists, OfDomain,
     Wanted, Refreshed
<1> QED
  BY <1>1, <1>2 DEF Next

\* A call carries from request to request what its next request needs, so that
\* only ontologies are ever stored and a call lists points of its domain only.
THEOREM ServiceTypes == Spec => []TypeOK
<1>1. ServiceInv => TypeOK
  BY DEF ServiceInv
<1> QED
  BY <1>1, ServiceInit, ServiceNext, PTL DEF Spec

\* What a call was told that met no other about its domains, stays so until
\* the next call about them.
THEOREM ServiceAcknowledged == Spec => []AcknowledgedStays
<1>1. ServiceInv => AcknowledgedStays
  BY DEF ServiceInv
<1> QED
  BY <1>1, ServiceInit, ServiceNext, PTL DEF Spec

\* After a refresh, delete or rename that met no other call about its domain,
\* the routing points are those of the stored ontology.
THEOREM ServiceIndexFollows == Spec => []IndexFollows
<1>1. ServiceInv => IndexFollows
  BY DEF ServiceInv
<1> QED
  BY <1>1, ServiceInit, ServiceNext, PTL DEF Spec

\* A guarded patch writes only over the ontology its version was read with.
LEMMA ViewIsStored == ServiceInv => GuardHonoured
<1> SUFFICES ASSUME ServiceInv, NEW c \in alone, call[c].stage = "put", call[c].op = "patch",
                    call[c].expected # None, view[c].sound
             PROVE  schema[call[c].domain].body = view[c].body
  BY DEF GuardHonoured
<1>1. c \in Caller /\ OnCourse(c)
  BY DEF ServiceInv, TypeOK, Progress, Busy
<1>2. call[c].expected = schema[call[c].domain].version
  BY <1>1 DEF OnCourse
<1>3. view[c].domain = call[c].domain /\ view[c].version = call[c].expected
  BY <1>1 DEF ServiceInv, ExpectsItsView
<1> QED
  BY <1>1, <1>2, <1>3 DEF ServiceInv, ViewsHold

\* While a guarded write of a call that met no other is under way, what is
\* stored for its domain is the version its caller read.
THEOREM ServiceGuardHonoured == Spec => []GuardHonoured
  BY ViewIsStored, ServiceInit, ServiceNext, PTL DEF Spec

\* At every step of a rename that meets no other call, the ontology is stored
\* under the old name or under the new one.
LEMMA RenameStepKeeps ==
  ASSUME ServiceInv, [Next]_vars, NEW c \in alone,
         call[c].stage \in {"write_to", "filter", "list_ids", "delete_ids"},
         call[c].op = "rename"
  PROVE  \E d \in {call[c].domain, call[c].to} : schema'[d].body = call[c].body
<1> DEFINE k == call[c]
<1>1. /\ c \in Caller /\ Busy(c) /\ OnCourse(c) /\ TypeOK
      /\ k.domain \in Domain /\ k.to \in Domain
      /\ k.domain \in Touches(k) /\ k.to \in Touches(k)
  BY TouchesItsDomains DEF ServiceInv, TypeOK, Progress, Busy
<1>2. /\ k.stage = "write_to" => schema[k.domain].body = k.body
      /\ k.stage # "write_to" => schema[k.to].body = k.body /\ k.to # k.domain
  BY <1>1 DEF OnCourse
<1>3. CASE schema' = schema
  BY <1>2, <1>3
<1>4. ASSUME NEW x \in Caller, Step(x) PROVE \E d \in {k.domain, k.to} : schema'[d].body = k.body
  <2>1. CASE x # c /\ Proper(x)
    <3>1. Touches(call[x]) \cap Touches(k) = {}
      BY <1>1, <2>1, Others
    <3>2. schema'[k.domain] = schema[k.domain] /\ schema'[k.to] = schema[k.to]
      BY <1>1, <2>1, <3>1 DEF Proper, Near
    <3> QED
      BY <1>2, <3>2
  <2>2. CASE x = c /\ WriteTo(c)
    BY <1>1, <2>2 DEF WriteTo, Stamp, TypeOK
  <2>3. CASE x = c /\ DeleteByFilter(c)
    BY <1>1, <1>2, <2>3 DEF DeleteByFilter, TypeOK
  <2>4. CASE x = c /\ (ListIds(c) \/ DeleteIds(c) \/ RequestFails(c))
    BY <1>3, <2>4 DEF ListIds, DeleteIds, RequestFails, store
  <2>5. CASE x = c /\ (Get(c) \/ List(c) \/ Put(c) \/ GetTo(c) \/ Missing(c) \/ Upsert(c))
    BY <1>3, <2>5 DEF Get, List, Put, GetTo, Missing, Upsert, store
  <2>6. CASE \/ Create(x) \/ Replace(x) \/ PatchDomain(x) \/ GetWithVersion(x)
             \/ Rename(x) \/ Delete(x) \/ RefreshEmbeddings(x) \/ ImportBuiltin(x)
    BY <1>3, <2>6 DEF Create, Replace, PatchDomain, GetWithVersion, Rename, Delete,
       RefreshEmbeddings, ImportBuiltin, Begin, store
  <2> QED
    BY <1>4, <2>1, <2>2, <2>3, <2>4, <2>5, <2>6, RequestsAreProper DEF Step
<1> QED
  BY <1>3, <1>4 DEF Next, vars, store

\* A rename that meets no other call never takes a step after which its ontology
\* is stored under neither name.
THEOREM ServiceRenameKeeps == Spec => RenameKeeps
<1> DEFINE Keeps ==
      \A c \in alone :
        call[c].stage \in {"write_to", "filter", "list_ids", "delete_ids"} /\ call[c].op = "rename"
        => \E d \in {call[c].domain, call[c].to} : schema'[d].body = call[c].body
<1>1. ServiceInv /\ [Next]_vars => Keeps
  BY RenameStepKeeps
<1>2. ServiceInv /\ [Next]_vars => [Keeps]_vars
  BY <1>1
<1> HIDE DEF Keeps
<1>3. Spec => [][Keeps]_vars
  BY <1>2, ServiceInit, ServiceNext, PTL DEF Spec
<1> QED
  BY <1>3 DEF RenameKeeps, Keeps

===============================================================================
