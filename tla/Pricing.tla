-------------------------------- MODULE Pricing --------------------------------
(***************************************************************************)
(* PricingService.quote behind the idempotency interceptor: two scenarios  *)
(* are priced by the adapter and stored, with three events around it:      *)
(*                                                                         *)
(*   recordEvent(requested) -> adapter -> $transaction                     *)
(*     -> recordEvent(received) -> recordEvent(persisted)                  *)
(*                                                                         *)
(* where recordEvent is event.findFirst -> event.create.  The adapter is   *)
(* the mock of the repository, which takes the terms of a quote from a     *)
(* table; they are left out, so a quote is known by its scenario.          *)
(***************************************************************************)
EXTENDS Idempotency, EventLedger

VARIABLES
  events,   \* the table events
  quotes,   \* the table pricing_quotes
  prevHash, \* the predecessor that recordEvent has read
  offer     \* the quotes in the response of the adapter

pricingVars == <<events, quotes, prevHash, offer>>

PricingInit ==
  /\ events = <<>> /\ quotes = <<>>
  /\ prevHash = [r \in Requests |-> GENESIS]
  /\ offer = [r \in Requests |-> <<>>]

\* pricing.service.ts:35, 70 and 88.
EventTypes == <<"quote.requested", "quote.received", "quote.persisted">>

EventsBy(r) == {i \in DOMAIN events : events[i].by = r}

\* recordEvent: the newest event of the tenant.
LinkEvent(r) ==
  /\ \E s \in {"start", "link"} : At(r, {"quote"}, s)
  /\ \E h \in LatestOfTenant(events, call[r].tenant) :
       prevHash' = [prevHash EXCEPT ![r] = h]
  /\ Goto(r, "record")
  /\ UNCHANGED <<interceptorVars, events, quotes, offer>>

\* Where the handler goes from its first, second and third event.
AfterEvent == <<"adapter", "link", "return">>

RecordEvent(r) ==
  LET n == Cardinality(EventsBy(r)) + 1
  IN  /\ At(r, {"quote"}, "record")
      /\ events' \in Appended(events,
           [tenant |-> call[r].tenant, loan |-> call[r].loan, subject |-> call[r].loan,
            type |-> EventTypes[n], by |-> r], prevHash[r])
      /\ Goto(r, AfterEvent[n])
      /\ UNCHANGED <<interceptorVars, quotes, prevHash, offer>>

-----------------------------------------------------------------------------
(* The adapter *)

QuoteOf(s) == [scenarioKey |-> s.scenarioKey]

\* ppeAdapter.quote: one quote for each scenario, and nothing else is kept.
Adapter(r) ==
  /\ At(r, {"quote"}, "adapter")
  /\ offer' = [offer EXCEPT ![r] = [i \in 1..2 |-> QuoteOf(call[r].scenarios[i])]]
  /\ Goto(r, "persist")
  /\ UNCHANGED <<interceptorVars, events, quotes, prevHash>>

\* Mutant: the creates are started without the transaction, and the first is awaited.
PersistQuotesMutant(r) ==
  /\ At(r, {"quote"}, "persist")
  /\ quotes' = Append(quotes, [tenant |-> call[r].tenant, loan |-> call[r].loan, by |-> r,
                               quote |-> offer[r][1]])
  /\ Goto(r, "link")
  /\ UNCHANGED <<interceptorVars, events, prevHash, offer>>

\* $transaction: both rows or, when it fails, none.
PersistQuotes(r) ==
  /\ At(r, {"quote"}, "persist")
  /\ quotes' = quotes \o [i \in 1..2 |->
       [tenant |-> call[r].tenant, loan |-> call[r].loan, by |-> r,
        quote |-> offer[r][i]]]
  /\ Goto(r, "link")
  /\ UNCHANGED <<interceptorVars, events, prevHash, offer>>

ReturnQuote(r) ==
  /\ At(r, {"quote"}, "return")
  /\ Answer(r)
  /\ UNCHANGED <<step, pricingVars>>

QuoteStep(r) ==
  LinkEvent(r) \/ RecordEvent(r) \/ Adapter(r) \/ PersistQuotes(r) \/ ReturnQuote(r)

-----------------------------------------------------------------------------
QuoteWriters == {r \in Requests : \E i \in DOMAIN quotes : quotes[i].by = r}

\* The ledger and the table tell how far each request for a quote has come, also
\* when it fails: its events are the first of requested, received and persisted, in
\* that order; both of its quotes are stored or none is, both before the second
\* event; and the caller has an answer only when all of it is there.
QuoteIsTold ==
  \A r \in Requests : call[r] # NoCall /\ call[r].op = "quote" =>
    LET told == EventsBy(r)
        rows == {i \in DOMAIN quotes : quotes[i].by = r}
    IN  /\ \A i \in told :
             events[i].type = EventTypes[Cardinality({j \in told : j <= i})]
        /\ Cardinality(rows) \in {0, 2}
        /\ Cardinality(told) >= 2 => rows # {}
        /\ rows # {} => Cardinality(told) >= 1
        /\ r \in Answered => Cardinality(told) = 3
        /\ {quotes[i].quote.scenarioKey : i \in rows} \in
             {{}, {s.scenarioKey : s \in {call[r].scenarios[1], call[r].scenarios[2]}}}
=============================================================================
