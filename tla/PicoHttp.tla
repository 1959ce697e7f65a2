------------------------------ MODULE PicoHttp ------------------------------
(***************************************************************************)
(* The main loop of the Pico W (main.cpp, WifiManager.cpp) and the HTTP    *)
(* client with which it notifies the integration server once a second      *)
(* (http_client_request.cpp, lwip_http_client.c).                          *)
(*                                                                         *)
(* Notifications overlap: request() starts one whether or not the last has *)
(* ended.  The callbacks of the client run in lwIP's background interrupt, *)
(* so they come between the steps of the loop; each is one action.         *)
(***************************************************************************)
EXTENDS Naturals, FiniteSets

CONSTANTS Req,      \* slots of httpc_state_t, names only
          Heap,     \* blocks of lwIP's heap (MEM_SIZE)
          Pcbs,     \* MEMP_NUM_TCP_PCB
          Window,   \* TCP_WND, in buffers
          Pool,     \* PBUF_POOL_SIZE
          Polls,    \* HTTPC_POLL_TIMEOUT
          Net,      \* networks the device may join
          Host,     \* how a server may be named: "address", "name"
          Asserts,  \* whether lwIP is built with its assertions
          Faults,   \* bound on link losses, refused and broken connections
          None

ASSUME PicoHttpAssumption ==
  /\ {Heap, Faults} \subseteq Nat
  /\ {Pcbs, Window, Pool, Polls} \subseteq Nat \ {0}
  /\ IsFiniteSet(Req) /\ Cardinality(Req) >= Pcbs
  /\ Host \subseteq {"address", "name"}
  /\ Asserts \in BOOLEAN
  /\ None \notin Net /\ None \notin Nat /\ None # "ok"

VARIABLES
  main,     \* where the loop is
  cur,      \* the request it is about to connect
  link,     \* whether Wi-Fi is up
  net,      \* the network joined last
  home,     \* the static bytes of getIpAddrBytes: the network they were computed in
  req,      \* the states httpc_state_t
  heap,     \* blocks in use
  pcbs,     \* TCP control blocks in use
  closing,  \* of which those that only wait for the end of the TCP protocol
  pool,     \* buffers on the free list of PBUF_POOL
  cut,      \* history: that list was cut off somewhere
  faults

vars == <<main, cur, link, net, home, req, heap, pcbs, closing, pool, cut, faults>>

Results == {"ok", "closed", "content_len", "timeout", "mem", "connect", "hostname"}

\* A slot: pcb, request and rx_hdrs say which resources it owns; unread counts
\* buffers not yet given back to the window, which are the chain of rx_hdrs as
\* long as there is one; body and promised are the lengths rx_content_len and
\* hdr_content_len, result is what result_fn was last told.  History: came is how
\* much of the body arrived, None unless the headers ended in the first buffer.
Free(result, calls) ==
  [at |-> "free", to |-> None, pcb |-> FALSE, request |-> FALSE, rx_hdrs |-> FALSE,
   ticks |-> 0, unread |-> 0, body |-> 0, promised |-> None, came |-> None,
   calls |-> calls, result |-> result]

Init == /\ main = "wifi" /\ cur = None
        /\ link = FALSE /\ net = None /\ home = None
        /\ req = [r \in Req |-> Free(None, 0)]
        /\ heap = 0 /\ pcbs = 0 /\ closing = 0 /\ pool = Pool /\ cut = FALSE
        /\ faults = Faults

Fault == faults > 0 /\ faults' = faults - 1

\* Polled: the states in which the pcb is on lwIP's list of active ones.
Active(r) == req[r].at \in {"connecting", "line", "headers", "data"}

-----------------------------------------------------------------------------
(***************************************************************************)
(* The ends of a request                                                   *)
(***************************************************************************)
\* Mutant of Blocks: httpc_free_state forgets the request that was not written.
Blocks_StateOnly(q) == 1

\* The blocks that httpc_free_state gives back: the state, and the request.
Blocks(q) == IF q.request THEN 2 ELSE 1

\* The buffers of rx_hdrs.
Chain(q) == IF q.rx_hdrs THEN q.unread ELSE 0

\* altcp_close leaves a pcb to the protocol; when it fails the pcb is aborted.
ClosePcb(owned) ==
  IF owned THEN \/ closing' = closing + 1 /\ pcbs' = pcbs
                \/ closing' = closing /\ pcbs' = pcbs - 1
           ELSE UNCHANGED <<closing, pcbs>>

FreeState(r, owned, result, calls) ==
  /\ heap' = heap - Blocks(req[r])
  /\ pool' = pool + Chain(req[r])
  /\ ClosePcb(owned)
  /\ req' = [req EXCEPT ![r] = Free(result, calls)]
  /\ UNCHANGED cut

\* httpc_close: result_fn, then httpc_free_state.
Close(r, owned, result) == FreeState(r, owned, result, req[r].calls + 1)

-----------------------------------------------------------------------------
(***************************************************************************)
(* The main loop                                                           *)
(***************************************************************************)
\* The turn of a second is over; wifiInfiniteTryConnect returns if the link is up.
Wakes ==
  /\ main = "asleep"
  /\ main' = IF link THEN "request" ELSE "wifi"
  /\ UNCHANGED <<cur, link, net, home, req, heap, pcbs, closing, pool, cut, faults>>

\* wifiInfiniteTryConnect: tries until it succeeds.  The network that answers to
\* the SSID may be another one than before.
Joins ==
  /\ main = "wifi"
  /\ link' = TRUE
  /\ net' \in Net
  /\ main' = "request"
  /\ UNCHANGED <<cur, home, req, heap, pcbs, closing, pool, cut, faults>>

\* getIpAddrBytes: the first call initialises the static bytes.
IpAddrBytes == IF home = None THEN net ELSE home

\* Mutant of Gateway: made of the argument, not of what getIpAddrBytes returns.
Gateway_Now == net

\* getLocalServerIpAddrStr
Gateway == IpAddrBytes

\* request, httpc_init_connection: it fails without a trace when the heap has
\* no room for the state or for the request, or no pcb is left.
Allocates ==
  /\ main = "request"
  /\ home' = IpAddrBytes
  /\ IF heap + 2 <= Heap /\ pcbs < Pcbs
     THEN \E r \in Req :
            /\ req[r].at = "free"
            /\ req' = [req EXCEPT ![r] =
                 [at |-> "new", to |-> Gateway, pcb |-> TRUE, request |-> TRUE,
                  rx_hdrs |-> FALSE, ticks |-> Polls, unread |-> 0, body |-> 0,
                  promised |-> None, came |-> None, calls |-> 0, result |-> None]]
            /\ heap' = heap + 2 /\ pcbs' = pcbs + 1
            /\ cur' = r /\ main' = "connect"
     ELSE main' = "asleep" /\ UNCHANGED <<cur, req, heap, pcbs>>
  /\ UNCHANGED <<link, net, closing, pool, cut, faults>>

\* httpc_get_internal_addr: altcp_connect starts a connection.
Connecting(r) == req' = [req EXCEPT ![r].at = "connecting"]

\* httpc_get_internal_dns: an address is connected to at once, a name resolved.
Connects ==
  /\ main = "connect"
  /\ main' = "asleep" /\ cur' = None
  /\ \E host \in Host :
       IF host = "name" THEN req' = [req EXCEPT ![cur].at = "resolving"]
                        ELSE link /\ Connecting(cur)
  /\ UNCHANGED <<link, net, home, heap, pcbs, closing, pool, cut, faults>>

\* Mutant of StartFails: an error that reaches result_fn as well.
StartFails_Close == Close(cur, TRUE, "connect")

\* _httpc_get_file_dns: the caller gets the error, result_fn nothing.
StartFails == FreeState(cur, TRUE, None, 0)

\* altcp_connect finds no route: the link is down.
NoRoute ==
  /\ main = "connect" /\ "address" \in Host /\ ~link
  /\ main' = "asleep" /\ cur' = None
  /\ StartFails
  /\ UNCHANGED <<link, net, home, faults>>

-----------------------------------------------------------------------------
(***************************************************************************)
(* Callbacks                                                               *)
(***************************************************************************)
\* A packet can be received only into a buffer of the pool.
Received == link /\ pool > 0

\* httpc_dns_found with an address
NameFound(r) ==
  /\ req[r].at = "resolving"
  /\ main # "halted"
  /\ pool > 0
  /\ IF link THEN Connecting(r) /\ UNCHANGED <<heap, pcbs, closing, pool, cut>>
             ELSE Close(r, TRUE, "connect")
  /\ UNCHANGED <<main, cur, link, net, home, faults>>

\* httpc_dns_found without
NameUnknown(r) ==
  /\ req[r].at = "resolving"
  /\ main # "halted"
  /\ Close(r, TRUE, "hostname")
  /\ UNCHANGED <<main, cur, link, net, home, faults>>

\* httpc_tcp_connected: the request is written, and freed.
Connected(r) ==
  /\ req[r].at = "connecting"
  /\ Received /\ net = req[r].to
  /\ req' = [req EXCEPT ![r] = [@ EXCEPT !.at = "line", !.request = FALSE]]
  /\ heap' = heap - 1
  /\ main # "halted"
  /\ UNCHANGED <<main, cur, link, net, home, pcbs, closing, pool, cut, faults>>

\* httpc_tcp_connected: altcp_write finds no memory.
WriteFails(r) ==
  /\ req[r].at = "connecting"
  /\ main # "halted"
  /\ Received /\ net = req[r].to
  /\ Close(r, TRUE, "mem")
  /\ UNCHANGED <<main, cur, link, net, home, faults>>

\* What a buffer may bring: a piece of the first line or of the headers, the end
\* of the first line, the end of the headers, with or without data behind it.
Piece == {"part", "line", "head", "head+data"}

\* http_parse_response_status: a first line that does not parse is no end of it.
HasLine(at, piece) == at = "headers" \/ piece # "part"

\* http_wait_headers
HasHeaders(piece) == piece \in {"head", "head+data"}

\* The lengths that Content-Length may give, None if there is none.
Lengths == 0 .. Window \cup {None}

\* httpc_tcp_recv before the end of the headers: the buffer is added to rx_hdrs.
RecvHeaders(r) ==
  /\ req[r].at \in {"line", "headers"}
  /\ main # "halted"
  /\ Received /\ req[r].unread < Window
  /\ \E piece \in Piece :
       /\ ~(HasLine(req[r].at, piece) /\ HasHeaders(piece))
       /\ req' = [req EXCEPT ![r] =
            [@ EXCEPT !.at = IF HasLine(req[r].at, piece) THEN "headers" ELSE "line",
                      !.rx_hdrs = TRUE,
                      !.unread = req[r].unread + 1]]
  /\ pool' = pool - 1
  /\ UNCHANGED <<main, cur, link, net, home, heap, pcbs, closing, cut, faults>>

\* headers_fn frees the n buffers of the headers, the last of which has just been
\* taken from the pool: they go in front of its free list, the first one last.
HeadersFn(n) == pool - 1 + n

\* The headers end inside their first buffer, the one that has just arrived.
Inside(q, piece) == ~q.rx_hdrs /\ piece = "head+data"

\* pbuf_free_header unlinks and frees again the buffers that the headers fill.
\* The first one's next pointer links the free list by now: unless the headers
\* end inside that buffer, the list is cut off behind it.
FreeHeader(n, inside) == IF inside THEN HeadersFn(n) ELSE n

\* The buffer it leaves for body_fn, by its length: the data, or else one of those
\* cut off, with a length of its last use.  None at the end of the list.
LeftOver(inside) == IF inside THEN {1}
                    ELSE IF pool = 1 THEN {None} ELSE 0 .. Window \cup {None}

\* Freeing a buffer again: with its assertions lwIP stops the device, without them
\* the buffer's count of references wraps and it stays where it is.
FreedAgain == main' = IF Asserts THEN "halted" ELSE main

\* body_fn reads and frees the buffer without altcp_recved: the window shrinks.
BodyFn(unread) == unread + 1

\* Mutant of Counted: data that came with the headers not counted.
Counted_Behind(found) == 0

\* rx_content_len after the headers.
Counted(found) == IF found = None THEN 0 ELSE found

\* httpc_tcp_recv at the end of the headers.  They are given back to the window,
\* data in their last buffer is not.
RecvHead(r) ==
  /\ req[r].at \in {"line", "headers"}
  /\ main # "halted"
  /\ Received /\ req[r].unread < Window
  /\ \E piece \in {"head", "head+data"}, length \in Lengths :
       LET inside == Inside(req[r], piece)
       IN  /\ \E found \in LeftOver(inside) :
                req' = [req EXCEPT ![r] =
                  [@ EXCEPT !.at = "data",
                            !.rx_hdrs = FALSE,
                            !.unread = IF piece = "head" THEN 0 ELSE BodyFn(0),
                            !.body = Counted(found),
                            !.ticks = IF found = None THEN req[r].ticks ELSE Polls,
                            !.promised = length,
                            !.came = IF inside THEN 1 ELSE None]]
           /\ pool' = FreeHeader(req[r].unread + 1, inside)
           /\ cut' = (cut \/ (~inside /\ pool > 1))
  /\ FreedAgain
  /\ UNCHANGED <<cur, link, net, home, heap, pcbs, closing, faults>>

\* httpc_tcp_recv after the headers: valid data resets the timeout.
RecvData(r) ==
  /\ req[r].at = "data"
  /\ main # "halted"
  /\ Received /\ req[r].unread < Window
  /\ req' = [req EXCEPT ![r] = [@ EXCEPT !.unread = BodyFn(req[r].unread),
                                         !.body = req[r].body + 1,
                                         !.came = IF req[r].came = None THEN None
                                                  ELSE req[r].came + 1,
                                         !.ticks = Polls]]
  /\ UNCHANGED <<main, cur, link, net, home, heap, pcbs, closing, pool, cut, faults>>

\* httpc_tcp_recv without a buffer: the server closed the connection.
Outcome(q) == IF q.at # "data" THEN "closed"
              ELSE IF q.promised \notin {None, q.body} THEN "content_len" ELSE "ok"

PeerCloses(r) ==
  /\ req[r].at \in {"line", "headers", "data"}
  /\ main # "halted"
  /\ Received
  /\ Close(r, TRUE, Outcome(req[r]))
  /\ UNCHANGED <<main, cur, link, net, home, faults>>

\* httpc_tcp_err: the connection was refused or reset, the pcb is gone.
Breaks(r) ==
  /\ Active(r)
  /\ main # "halted"
  /\ Fault
  /\ heap' = heap - Blocks(req[r])
  /\ pool' = pool + Chain(req[r])
  /\ pcbs' = pcbs - 1
  /\ req' = [req EXCEPT ![r] = Free("closed", req[r].calls + 1)]
  /\ UNCHANGED <<main, cur, link, net, home, closing, cut>>

\* Mutant of Countdown: a timeout that any call of the timer begins anew.
Countdown_Reset(ticks) == Polls

Countdown(ticks) == IF ticks = 0 THEN 0 ELSE ticks - 1

\* httpc_tcp_poll, each half second.
Poll(r) ==
  /\ Active(r)
  /\ main # "halted"
  /\ IF Countdown(req[r].ticks) = 0
     THEN Close(r, TRUE, "timeout")
     ELSE /\ req' = [req EXCEPT ![r].ticks = Countdown(@)]
          /\ UNCHANGED <<heap, pcbs, closing, pool, cut>>
  /\ UNCHANGED <<main, cur, link, net, home, faults>>

-----------------------------------------------------------------------------
(***************************************************************************)
(* The network                                                             *)
(***************************************************************************)
\* TCP is done with a closed connection, or lwIP takes its pcb for a new one.
Released ==
  /\ closing > 0
  /\ closing' = closing - 1 /\ pcbs' = pcbs - 1
  /\ UNCHANGED <<main, cur, link, net, home, req, heap, pool, cut, faults>>

LinkLost ==
  /\ link /\ Fault
  /\ link' = FALSE
  /\ UNCHANGED <<main, cur, net, home, req, heap, pcbs, closing, pool, cut>>

-----------------------------------------------------------------------------
Loop == Wakes \/ Joins \/ Allocates \/ Connects \/ NoRoute

Callback(r) == \/ NameFound(r) \/ NameUnknown(r) \/ Connected(r) \/ WriteFails(r)
               \/ RecvHeaders(r) \/ RecvHead(r) \/ RecvData(r) \/ PeerCloses(r) \/ Breaks(r) \/ Poll(r)

Next == Loop \/ Released \/ LinkLost \/ \E r \in Req : Callback(r)

Spec == Init /\ [][Next]_vars

\* The loop goes on, lwIP's timer calls every active pcb, DNS answers or gives up
\* and TCP lets go of closed connections.  A name that is asked for again and
\* again is found, and a server that is called again and again at the address
\* where it lives takes a request.
FairSpec ==
  /\ Spec
  /\ WF_vars(Loop) /\ WF_vars(Released)
  /\ \A r \in Req : WF_vars(Poll(r)) /\ WF_vars(NameFound(r) \/ NameUnknown(r))
  /\ SF_vars(\E r \in Req : NameFound(r) /\ link)
  /\ SF_vars(\E r \in Req : Connected(r))

-----------------------------------------------------------------------------
(***************************************************************************)
(* Properties                                                              *)
(***************************************************************************)
\* Type correctness.
TypeOK ==
  /\ main \in {"asleep", "wifi", "request", "connect", "halted"}
  /\ cur \in Req \cup {None}
  /\ link \in BOOLEAN
  /\ net \in Net \cup {None} /\ home \in Net \cup {None}
  /\ req \in [Req ->
       [at : {"free", "new", "resolving", "connecting", "line", "headers", "data"},
        to : Net \cup {None}, pcb : BOOLEAN, request : BOOLEAN, rx_hdrs : BOOLEAN,
        ticks : 0 .. Polls, unread : 0 .. Window, body : 0 .. 2 * Window,
        promised : Lengths, came : 0 .. Window \cup {None},
        calls : {0, 1}, result : Results \cup {None}]]
  /\ heap \in 0 .. Heap
  /\ {pcbs, closing} \subseteq 0 .. Pcbs
  /\ pool \in 0 .. Pool /\ cut \in BOOLEAN
  /\ faults \in 0 .. Faults

\* The buffers that wait for the end of some request's headers.
Held == {b \in Req \X (1 .. Window) : b[2] <= Chain(req[b[1]])}

\* Whatever way a request ends (no memory, no route, no name, refused, reset,
\* closed early, timed out, complete), the blocks and control blocks in use are
\* those of the requests under way: what it allocated is given back, once.  So
\* are the buffers of the pool until headers that do not end in their first
\* buffer cut off its free list, which loses some for good, but never the last.
Accounted ==
  /\ TypeOK
  /\ heap = Cardinality({r \in Req : req[r].at # "free"})
            + Cardinality({r \in Req : req[r].request})
  /\ pcbs = Cardinality({r \in Req : req[r].pcb}) + closing
  /\ pool + Cardinality(Held) \in (IF cut THEN 1 ELSE Pool) .. Pool

\* A request that request() could start is reported to result_fn exactly once
\* when it ends; one that it could not start, never.
ResultOnce ==
  [][\A r \in Req : req[r].at # "free" /\ req'[r].at = "free" =>
       req'[r].calls = IF req[r].at = "new" THEN 0 ELSE 1]_vars

\* When the server closes the connection, success is reported if and only if as
\* much of the body has arrived as the headers promised, however it was cut up,
\* provided that the headers ended in the first buffer: the length of others
\* starts from that of a buffer which has nothing to do with the request.
OkIsTrue ==
  [][\A r \in Req : /\ req[r].came # None /\ req'[r].at = "free"
                    /\ req'[r].result \in {"ok", "content_len"}
       => (req'[r].result = "ok" <=> req[r].promised \in {None, req[r].came})]_vars

Heard == \E r \in Req : Connected(r)

\* Requests that hang take control blocks and memory from those that follow.
\* Still the device is heard again and again, as long as it stays in the network
\* it was switched on in and is not stopped.
KeepsNotifying ==
  (<>[](net = home) /\ [](main # "halted")) => []<><<Heard>>_vars

\* A device that comes up in another network goes on notifying an address of
\* the first, so no integration server of its new network hears of it.
DeafAbroad == [][Heard => net = home]_vars
=============================================================================
