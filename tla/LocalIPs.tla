------------------------------ MODULE LocalIPs ------------------------------
(***************************************************************************)
(* ProcessFrame (capture/filter.go) on the capture workers, with the cache *)
(* of the host's addresses that they share (capture/localips.go).          *)
(*                                                                         *)
(* A step is one section on l.mu or the call of lookup between two. An     *)
(* operator that nothing uses is a faulty variant of the definition after  *)
(* it: the mutation of the code that a property has to notice.             *)
(***************************************************************************)
EXTENDS NtpFilter

CONSTANTS
  Worker,
  Interval,            (* l.interval                                        *)
  Hosts,               (* address lists the host can have: sets of Addr     *)
  Wire,                (* frames that can arrive, for the filter to sort    *)
  Frames,              (* those of them that reach the workers one by one   *)
  None,
  MaxClock, MaxChanges, MaxParseErrors  (* bounds                           *)

ASSUME LocalAssumption ==
  /\ Interval \in Nat \ {0} /\ Hosts \subseteq SUBSET Addr /\ {} \notin Hosts
  /\ Frames \subseteq Wire /\ Wire \subseteq Frame /\ None \notin Frames
  /\ MaxClock \in Nat /\ MaxChanges \in Nat /\ MaxParseErrors \in Nat

VARIABLES
  set, lastLoad,
  wk,          (* [Worker -> record]: program counter and locals            *)
  handled,     (* history: the frames handed to HandleFrame                 *)
  parseErrors, (* NtpCaptureParseErrorsTotal                                *)
  host,        (* the addresses net.InterfaceAddrs would return             *)
  clock, changes

vars == <<set, lastLoad, wk, handled, parseErrors, host, clock, changes>>

cache == <<set, lastLoad>>
world == <<host, clock, changes>>

Idle == [pc |-> "idle", frame |-> None, next |-> None]

(* NewLocalIPs: the first reload, which leaves an empty set if it fails.   *)
Init ==
  /\ host \in Hosts
  /\ set \in {host, {}}
  /\ lastLoad = 0 /\ clock = 0
  /\ wk = [w \in Worker |-> Idle]
  /\ handled = {} /\ parseErrors = 0 /\ changes = 0
-----------------------------------------------------------------------------
(* What the filter that captureWorker sets on its socket lets through.     *)
Captured == {f \in Wire : Passes(f)}

In(w, pc) == wk[w].pc = pc

ProcessFrame(w, f) ==
  /\ In(w, "idle")
  /\ \/ ~Parses(f) /\ parseErrors < MaxParseErrors
        /\ parseErrors' = parseErrors + 1 /\ UNCHANGED wk
     \/ Parses(f) /\ UNCHANGED parseErrors
        /\ wk' = [wk EXCEPT ![w].pc = "stale", ![w].frame = f]
  /\ UNCHANGED <<cache, handled, host, clock, changes>>

maybeReload(w) ==
  /\ In(w, "stale")
  /\ wk' = [wk EXCEPT ![w].pc = IF clock - lastLoad >= Interval
                                THEN "lookup" ELSE "contains"]
  /\ UNCHANGED <<cache, handled, parseErrors, world>>

(* addrs, err := l.lookup(); next is None for an error.                    *)
Lookup(w) ==
  /\ In(w, "lookup")
  /\ \E next \in {host, None} :
       wk' = [wk EXCEPT ![w].pc = "reload", ![w].next = next]
  /\ UNCHANGED <<cache, handled, parseErrors, world>>

reloadEmptying(w) ==
  /\ In(w, "reload")
  /\ set' = IF wk[w].next = None THEN {} ELSE wk[w].next
  /\ lastLoad' = clock
  /\ wk' = [wk EXCEPT ![w].pc = "contains", ![w].next = None]
  /\ UNCHANGED <<handled, parseErrors, world>>

reload(w) ==
  /\ In(w, "reload")
  /\ set' = IF wk[w].next = None THEN set ELSE wk[w].next
  /\ lastLoad' = clock
  /\ wk' = [wk EXCEPT ![w].pc = "contains", ![w].next = None]
  /\ UNCHANGED <<handled, parseErrors, world>>

(* The lookup of ShouldAccept, and the call of HandleFrame.                *)
Contains(w) ==
  LET f == wk[w].frame IN
  /\ In(w, "contains")
  /\ handled' = IF OurEnd(ParseNTPFrame(f)) \in set THEN handled \union {f} ELSE handled
  /\ wk' = [wk EXCEPT ![w] = Idle]
  /\ UNCHANGED <<cache, parseErrors, world>>

Step(w) == maybeReload(w) \/ Lookup(w) \/ reload(w) \/ Contains(w)
-----------------------------------------------------------------------------
HostChanges ==
  /\ changes < MaxChanges /\ changes' = changes + 1
  /\ host' \in Hosts \ {host}
  /\ UNCHANGED <<cache, wk, handled, parseErrors, clock>>

Tick ==
  /\ clock < MaxClock /\ clock' = clock + 1
  /\ UNCHANGED <<cache, wk, handled, parseErrors, host, changes>>

Next ==
  \/ \E w \in Worker : (\E f \in Frames \intersect Captured : ProcessFrame(w, f)) \/ Step(w)
  \/ HostChanges \/ Tick

Spec == Init /\ [][Next]_vars
-----------------------------------------------------------------------------
(* Type invariant: a worker past the parser holds a frame that parses, and *)
(* the cache is dated by a clock reading of the past.                      *)
TypeOK ==
  /\ set \in SUBSET Addr /\ lastLoad \in 0 .. clock
  /\ \A w \in Worker :
       /\ wk[w].pc \in {"idle", "stale", "lookup", "reload", "contains"}
       /\ wk[w].pc # "idle" => Parses(wk[w].frame)
       /\ wk[w].next \in {None} \union Hosts
  /\ host \in Hosts

(* localips.go:57-62. Lookups that fail, and workers that reload at the    *)
(* same time, never take a list away or mix two: the cache only ever goes  *)
(* to a whole list that the host has had.                                  *)
ListKept == [][set' \in Hosts \union {set}]_cache

(* One of chronyd's polls to an upstream server, or the answer to it, on a *)
(* client port.                                                            *)
Upstream(f) ==
  \/ f.dst \notin UNION Hosts /\ f.dport = NTPPort /\ f.sport # NTPPort
  \/ f.src \notin UNION Hosts /\ f.sport = NTPPort /\ f.dport # NTPPort

(* filter.go:18-23 "it also sees chronyd's own outgoing polls to upstream  *)
(* servers and their replies ... must not be counted": they are not, while *)
(* the host's addresses change and lists are reloaded or fail to.          *)
UpstreamNotCounted == \A f \in handled : ~Upstream(f)

(* frame.go:103-128, filter.go:24-29. Whenever a whole request is accepted *)
(* its reply is, as a response to the same client with the same xid, so    *)
(* that the pair can be matched - if the client does not itself use port   *)
(* 123.                                                                    *)
RepliesAccepted ==
  \A f \in Frames, ts \in Timestamp :
    LET r == Reply(f, ts) IN
    /\ Accepted(f, set) /\ HasPayload(f)
    /\ f.dport = NTPPort /\ f.sport # NTPPort
    => /\ Accepted(r, set)
       /\ ParseNTPFrame(r).direction = "response"
       /\ ParseNTPFrame(r).ip = ParseNTPFrame(f).ip
       /\ ParseNTPFrame(r).xid = ParseNTPFrame(f).xid

(* A fragment other than the first.                                        *)
Fragment(f) == f.ethertype = EthertypeIPv4 /\ f.frag % 8192 # 0

(* Frames that parse and are not let through, for no known reason.         *)
Lost == {f \in Wire : Parses(f) /\ ~f.vlan /\ ~Fragment(f)} \ Captured

(* Frames that are let through and do not parse, likewise. The filter      *)
(* looks at no header length and at the first half of the UDP header only. *)
Misread ==
  {f \in Captured : /\ ~Parses(f)
                    /\ f.ethertype = EthertypeIPv4 => 4 * f.ihl >= 20
                    /\ f.len \notin UDPOff(f) + 2 .. PayloadOff(f) - 1}

(* frame.go:149-175 against 46-131, two readings of the same bytes. No     *)
(* frame that the workers would count is lost to the filter, unless it is  *)
(* tagged or a later fragment, and what NtpCaptureParseErrorsTotal counts  *)
(* is a frame with a header length below 20 or cut in its UDP header.      *)
FilterAgrees == (\A f \in Lost : ~Accepted(f, set)) /\ Misread = {}
=============================================================================
