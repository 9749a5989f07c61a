----------------------------- MODULE PosOffline -----------------------------
(***************************************************************************)
(* Sales of a POS terminal over a network that fails: the queue the        *)
(* terminal keeps in IndexedDB (pos-offline-queue.ts), the flush that      *)
(* sends it (pos-offline-sync.ts) from the page and from the shell around  *)
(* it, the checkout of the page, and createSale on the server              *)
(* (pos.service.ts), which looks for the sale's client id before it makes  *)
(* an invoice.                                                             *)
(*                                                                         *)
(* A request that reaches the server is served to its end even when its    *)
(* connection is lost; the terminal then takes it for failed. The queue    *)
(* survives a reload of the page, a flush does not. Split and store credit *)
(* sales, which are never queued, and the void and refund requests, which  *)
(* wait in a second store, are left out; what a sale does on the server is *)
(* the subject of PosCounter.                                              *)
(***************************************************************************)
EXTENDS PosTerms, Integers

CONSTANTS
  Flushers,     \* places of the application that flush the queue
  MaxAttempts,  \* POS_OFFLINE_MAX_ATTEMPTS
  MaxReloads,   \* how often the application is closed in the middle of a flush
  MaxCharges    \* how often the cashier charges one cart

ASSUME OfflineConstants ==
  /\ MaxAttempts \in Nat \ {0} /\ MaxReloads \in Nat /\ MaxCharges \in Nat \ {0}
  /\ None \notin Sales \cup Flushers /\ Sales \cap Flushers = {}

VARIABLES
  cart,      \* what the cashier knows of each cart
  charges,   \* how often a cart was sent without a client id
  queue,     \* rows of the store pending-sales
  flush,     \* what each flusher is doing
  call,      \* what each handler of the server is doing
  online,    \* invoices a cart got without a client id
  tagged,    \* invoices a cart got under its client id
  findable,  \* does an invoice still carry the client id in its notes?
  blind,     \* client ids whose sale a lookup could fail to see
  dropped,   \* rows the user discarded
  reloads

offlineVars == <<cart, charges, queue, flush, call, online, tagged, findable, blind,
                 dropped, reloads>>
terminal == <<cart, charges, queue, flush, dropped, reloads>>
server == <<online, tagged, findable, blind>>

NoRow == [waits |-> FALSE, attempts |-> 0, quarantined |-> FALSE]
NoFlush == [pc |-> "idle", rows |-> {}, sale |-> None, attempts |-> 0]
NoRequest == [pc |-> "idle", sale |-> None, tag |-> FALSE, client |-> None]

OfflineInit ==
  /\ cart = [s \in Sales |-> "open"] /\ charges = [s \in Sales |-> 0]
  /\ queue = [s \in Sales |-> NoRow]
  /\ flush = [f \in Flushers |-> NoFlush]
  /\ call = [h \in Handlers |-> NoRequest]
  /\ online = [s \in Sales |-> 0] /\ tagged = [s \in Sales |-> 0]
  /\ findable = [s \in Sales |-> FALSE]
  /\ blind = {} /\ dropped = {} /\ reloads = 0

Pending(s) == queue[s].waits /\ ~queue[s].quarantined
Arrives(s, tag, client) ==
  \E h \in Handlers :
    /\ call[h].pc = "idle"
    /\ call' = [call EXCEPT ![h] = [pc |-> "lookup", sale |-> s, tag |-> tag, client |-> client]]

(***************************************************************************)
(* The checkout of the page. Its request carries no client id; the row it  *)
(* queues when it is offline, or when the network fails, has a new one.    *)
(***************************************************************************)
Charge(s) ==
  /\ cart[s] = "open" /\ charges[s] < MaxCharges
  /\ cart' = [cart EXCEPT ![s] = "sent"] /\ charges' = [charges EXCEPT ![s] = @ + 1]
  /\ Arrives(s, FALSE, s) \/ UNCHANGED call
  /\ UNCHANGED <<queue, flush, dropped, reloads, server>>

Enqueue(s) ==
  /\ queue' = [queue EXCEPT ![s] = [NoRow EXCEPT !.waits = TRUE]]
  /\ cart' = [cart EXCEPT ![s] = "queued"]

ChargeOffline(s) ==
  /\ cart[s] = "open" /\ charges[s] < MaxCharges /\ Enqueue(s)
  /\ UNCHANGED <<charges, flush, call, dropped, reloads, server>>

\* The connection fails: before the request arrived, or while it is served.
Disconnect(client) ==
  call' = [h \in Handlers |-> IF call[h].client = client
                              THEN [call[h] EXCEPT !.client = None] ELSE call[h]]
ChargeUnanswered(s) ==
  /\ cart[s] = "sent" /\ Enqueue(s) /\ Disconnect(s)
  /\ UNCHANGED <<charges, flush, dropped, reloads, server>>

(***************************************************************************)
(* The flush: every row that is not quarantined in the list it read, one   *)
(* after the other, whatever becomes of it.                                *)
(***************************************************************************)
StartFlush(f) ==
  /\ flush[f].pc = "idle" /\ \E s \in Sales : Pending(s)
  /\ flush' = [flush EXCEPT ![f] = [NoFlush EXCEPT !.pc = "next",
                                                   !.rows = {s \in Sales : Pending(s)}]]
  /\ UNCHANGED <<cart, charges, queue, call, dropped, reloads, server>>

SendRow(f) ==
  /\ flush[f].pc = "next"
  /\ \/ /\ flush[f].rows = {} /\ flush' = [flush EXCEPT ![f] = NoFlush]
        /\ UNCHANGED call
     \/ \E s \in flush[f].rows :
          /\ flush' = [flush EXCEPT ![f].pc = "sent", ![f].sale = s, ![f].rows = @ \ {s}]
          /\ Arrives(s, TRUE, f) \/ UNCHANGED call
  /\ UNCHANGED <<cart, charges, queue, dropped, reloads, server>>

\* Faulty: drops the row whatever the answer was.
RowUnansweredDropped(f) ==
  /\ flush[f].pc = "sent" /\ Disconnect(f)
  /\ flush' = [flush EXCEPT ![f].pc = "remove"]
  /\ UNCHANGED <<cart, charges, queue, dropped, reloads, server>>

RowUnanswered(f) ==
  /\ flush[f].pc = "sent" /\ Disconnect(f)
  /\ flush' = [flush EXCEPT ![f].pc = "failed"]
  /\ UNCHANGED <<cart, charges, queue, dropped, reloads, server>>

RemovePendingSale(f) ==
  /\ flush[f].pc = "remove"
  /\ queue' = [queue EXCEPT ![flush[f].sale] = NoRow]
  /\ flush' = [flush EXCEPT ![f] = [@ EXCEPT !.pc = "next", !.sale = None]]
  /\ UNCHANGED <<cart, charges, call, dropped, reloads, server>>

\* markSaleAttempt reads the rows, then puts the one it found.
ReadAttempts(f) ==
  /\ flush[f].pc = "failed"
  /\ LET row == queue[flush[f].sale] IN
     flush' = [flush EXCEPT ![f] =
       IF row.waits THEN [@ EXCEPT !.pc = "mark", !.attempts = row.attempts + 1]
       ELSE [@ EXCEPT !.pc = "next", !.sale = None]]
  /\ UNCHANGED <<cart, charges, queue, call, dropped, reloads, server>>

\* Faulty: a row that always fails is never put aside.
MarkWithoutQuarantine(f) ==
  /\ flush[f].pc = "mark"
  /\ queue' = [queue EXCEPT ![flush[f].sale] =
       [waits |-> TRUE, attempts |-> 0, quarantined |-> FALSE]]
  /\ flush' = [flush EXCEPT ![f] = [@ EXCEPT !.pc = "next", !.sale = None, !.attempts = 0]]
  /\ UNCHANGED <<cart, charges, call, dropped, reloads, server>>

MarkSaleAttempt(f) ==
  /\ flush[f].pc = "mark"
  /\ queue' = [queue EXCEPT ![flush[f].sale] =
       [waits |-> TRUE, attempts |-> flush[f].attempts,
        quarantined |-> flush[f].attempts >= MaxAttempts]]
  /\ flush' = [flush EXCEPT ![f] = [@ EXCEPT !.pc = "next", !.sale = None, !.attempts = 0]]
  /\ UNCHANGED <<cart, charges, call, dropped, reloads, server>>

\* The user removes quarantined rows, or one row from the list of the queue.
Discard(s) ==
  /\ queue[s].waits
  /\ queue' = [queue EXCEPT ![s] = NoRow] /\ dropped' = dropped \cup {s}
  /\ UNCHANGED <<cart, charges, flush, call, reloads, server>>

\* The application is closed or reloaded; an open cart is kept in the session.
Reload ==
  /\ reloads < MaxReloads /\ reloads' = reloads + 1
  /\ flush' = [f \in Flushers |-> NoFlush]
  /\ cart' = [s \in Sales |-> IF cart[s] = "sent" THEN "open" ELSE cart[s]]
  /\ call' = [h \in Handlers |-> [call[h] EXCEPT !.client = None]]
  /\ UNCHANGED <<charges, queue, dropped, server>>

(***************************************************************************)
(* The server.                                                             *)
(***************************************************************************)
\* The answer of a request, when its client still waits for it.
Answer(h, ok) ==
  LET c == call[h].client IN
  /\ call' = [call EXCEPT ![h] = NoRequest]
  /\ cart' = IF c \notin Sales THEN cart
             ELSE [cart EXCEPT ![c] = IF ok THEN "sold" ELSE "open"]
  /\ flush' = IF c \notin Flushers THEN flush
              ELSE [flush EXCEPT ![c].pc = IF ok THEN "remove" ELSE "failed"]

\* Faulty: does not look for the client id.
NeverLookUp(h) ==
  /\ call[h].pc = "lookup"
  /\ call' = [call EXCEPT ![h].pc = "make"]
  /\ UNCHANGED <<cart, flush, blind, charges, queue, dropped, reloads, online, tagged, findable>>

LookUpClientSale(h) ==
  LET s == call[h].sale IN
  /\ call[h].pc = "lookup"
  /\ IF call[h].tag /\ findable[s]
     THEN Answer(h, TRUE) /\ UNCHANGED blind
     ELSE /\ call' = [call EXCEPT ![h].pc = "make"]
          /\ blind' = IF call[h].tag /\ \E g \in Handlers \ {h} :
                           call[g].pc = "make" /\ call[g].tag /\ call[g].sale = s
                      THEN blind \cup {s} ELSE blind
          /\ UNCHANGED <<cart, flush>>
  /\ UNCHANGED <<charges, queue, dropped, reloads, online, tagged, findable>>

\* The invoice is made and the answer is the sale, or an error of what follows.
MakeInvoice(h) ==
  LET s == call[h].sale IN
  /\ call[h].pc = "make"
  /\ IF call[h].tag
     THEN /\ tagged' = [tagged EXCEPT ![s] = @ + 1]
          /\ findable' = [findable EXCEPT ![s] = TRUE] /\ UNCHANGED online
     ELSE online' = [online EXCEPT ![s] = @ + 1] /\ UNCHANGED <<tagged, findable>>
  /\ \E ok \in BOOLEAN : Answer(h, ok)
  /\ UNCHANGED <<charges, queue, dropped, reloads, blind>>

\* Out of stock, no open shift, or a stop of the server: no invoice.
RefuseSale(h) ==
  /\ call[h].pc = "make" /\ Answer(h, FALSE)
  /\ UNCHANGED <<charges, queue, dropped, reloads, server>>

\* A refund replaces the notes of the sale, and with them the client id.
RefundSale(s) ==
  /\ findable[s] /\ findable' = [findable EXCEPT ![s] = FALSE]
  /\ blind' = blind \cup {s}
  /\ UNCHANGED <<terminal, call, online, tagged>>

Checkout(s) == Charge(s) \/ ChargeOffline(s) \/ ChargeUnanswered(s)
Flush(f) ==
  SendRow(f) \/ RowUnanswered(f) \/ RemovePendingSale(f) \/ ReadAttempts(f) \/ MarkSaleAttempt(f)
ServeSale(h) == LookUpClientSale(h) \/ MakeInvoice(h) \/ RefuseSale(h)

OfflineNext ==
  \/ \E s \in Sales : Checkout(s) \/ Discard(s) \/ RefundSale(s)
  \/ \E f \in Flushers : StartFlush(f) \/ Flush(f)
  \/ \E h \in Handlers : ServeSale(h)
  \/ Reload

\* A flush starts again while rows wait: on every "online" event, whenever the
\* page opens, and at the cashier's request. Code that runs goes on running.
OfflineSpec ==
  /\ OfflineInit /\ [][OfflineNext]_offlineVars
  /\ \A f \in Flushers : WF_offlineVars(StartFlush(f)) /\ WF_offlineVars(Flush(f))
  /\ \A h \in Handlers : WF_offlineVars(ServeSale(h))
-----------------------------------------------------------------------------
(***************************************************************************)
(* Properties.                                                             *)
(***************************************************************************)
\* No sale is lost: what the cashier was told is queued waits in the queue, has
\* its invoice, or was discarded by hand, and what he was told is sold has its
\* invoice, through any loss of answers, reload and overlapping flushes.
NeverLost ==
  \A s \in Sales :
    /\ cart[s] = "queued" => queue[s].waits \/ tagged[s] > 0 \/ s \in dropped
    /\ cart[s] = "sold" => online[s] > 0

\* The client id makes repetition harmless: a queued sale has a second invoice
\* only if two requests with its id looked for it at the same time, or the
\* first invoice was refunded while the row still waited.
SoldOnce ==
  \A s \in Sales : tagged[s] > 1 => s \in blind

\* The queue drains: a row that waits is removed or put aside as quarantined,
\* however often its requests fail, and does not keep the others waiting.
QueueDrains == \A s \in Sales : <>[]~Pending(s)
=============================================================================
