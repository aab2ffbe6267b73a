------------------------------ MODULE Admission -----------------------------
(* Admission of requests by ddos_mitigation.py: check_request and the        *)
(* limiters it consults, each call under the coordinator's lock.  Time runs  *)
(* in ticks.  get_threshold_multiplier compares the baseline with itself,    *)
(* so that the adaptive limit never refuses: it and the statistics are left  *)
(* out.                                                                      *)
EXTENDS Integers, Sequences, SequencesExt, FiniteSets, FiniteSetsExt

CONSTANTS
  Ips,
  Capacity, Rate,          \* the token bucket: its size, tokens per tick
  MaxRequests, Window,     \* the sliding window of one address
  MaxPerIp, MaxTotal,      \* connections
  BanThreshold, Decay,     \* reputation
  SynThreshold, SynWindow,
  BanTime,                 \* ban_duration_seconds
  Calls,                   \* the calls made besides check_request
  MaxTime, MaxCalls        \* bounds of the model

VARIABLES
  now,
  tokens, last_refill,
  requests,                \* requests[ip]: the times in the sliding window
  connections, total,
  scores, events,          \* the reputation of an address
  syn_timestamps,
  blocked_ips,             \* blocked_ips[ip]: the end of a ban, 0 for none
  open,                    \* open[ip]: connections admitted and not released
  admitted,                \* the address and time of each request admitted
  banned,                  \* banned[ip]: whether a ban should be in force
  calls

limits == <<tokens, last_refill, requests, connections, total, syn_timestamps>>
reputation == <<scores, events>>
history == <<open, admitted>>
vars == <<now, limits, reputation, blocked_ips, history, banned, calls>>

Init ==
  /\ now = 1
  /\ tokens = Capacity /\ last_refill = 1
  /\ requests = [ip \in Ips |-> <<>>]
  /\ connections = [ip \in Ips |-> 0] /\ total = 0
  /\ scores = [ip \in Ips |-> 0] /\ events = [ip \in Ips |-> <<>>]
  /\ syn_timestamps = <<>>
  /\ blocked_ips = [ip \in Ips |-> 0]
  /\ open = [ip \in Ips |-> 0] /\ admitted = <<>>
  /\ banned = [ip \in Ips |-> FALSE] /\ calls = 0

-----------------------------------------------------------------------------

\* The times of a deque that are not before the cutoff.
Recent(times, window) == SelectSeq(times, LAMBDA t : t >= now - window)

\* TokenBucket: the tokens there are now.
Refilled == Min({Capacity, tokens + (now - last_refill) * Rate})

\* record_event, with _decay: once an event has expired the score is the
\* number of those left.
record_event(ip, severity) ==
  LET all == Append(events[ip], now)
      left == Recent(all, Decay)
  IN /\ events' = [events EXCEPT ![ip] = left]
     /\ scores' = [scores EXCEPT ![ip] = IF left = all THEN @ + severity ELSE Len(left)]

is_banned(ip) == scores[ip] >= BanThreshold

\* A ban that has run out is deleted by the request that finds it.
Unblocked(ip) == IF blocked_ips[ip] > now THEN blocked_ips[ip] ELSE 0

Refused(ip) ==
  /\ blocked_ips[ip] > now \/ is_banned(ip)
  /\ blocked_ips' = [blocked_ips EXCEPT ![ip] = Unblocked(ip)]
  /\ UNCHANGED <<limits, reputation, history>>

\* SYNFloodDetector.record_syn
Syns(is_syn) == IF is_syn THEN Append(Recent(syn_timestamps, SynWindow), now) ELSE syn_timestamps
Flood(is_syn) == is_syn /\ Len(Syns(is_syn)) >= SynThreshold

Full(ip) == connections[ip] >= MaxPerIp \/ total >= MaxTotal

\* ConnectionTracker.acquire of a connection within the limits
acquire(ip) ==
  /\ connections' = [connections EXCEPT ![ip] = @ + 1]
  /\ total' = total + 1

\* TokenBucket.consume
consume ==
  /\ last_refill' = now
  /\ tokens' = IF Refilled >= 1 THEN Refilled - 1 ELSE Refilled

\* Mutant of WindowOpen: one request more than the window holds.
WindowOpenLate(ip) == Len(Recent(requests[ip], Window)) <= MaxRequests

\* SlidingWindowRateLimiter.check
WindowOpen(ip) == Len(Recent(requests[ip], Window)) < MaxRequests

\* The connection is acquired before the rates are looked at.
Limited(ip) ==
  /\ acquire(ip)
  /\ consume
  /\ IF Refilled < 1
     THEN /\ record_event(ip, 1) /\ UNCHANGED <<requests, history>>
     ELSE /\ requests' = [requests EXCEPT ![ip] =
               IF WindowOpen(ip) THEN Append(Recent(@, Window), now) ELSE Recent(@, Window)]
          /\ IF WindowOpen(ip)
             THEN /\ open' = [open EXCEPT ![ip] = @ + 1]
                  /\ admitted' = Append(admitted, <<ip, now>>)
                  /\ UNCHANGED reputation
             ELSE /\ record_event(ip, 1) /\ UNCHANGED history

check_request(ip, is_syn) ==
  /\ calls < MaxCalls /\ calls' = calls + 1
  /\ \/ Refused(ip)
     \/ /\ blocked_ips[ip] <= now /\ ~is_banned(ip)
        /\ blocked_ips' = [blocked_ips EXCEPT ![ip] = 0]
        /\ syn_timestamps' = Syns(is_syn)
        /\ \/ /\ Flood(is_syn)
              /\ record_event(ip, 10)
              /\ UNCHANGED <<tokens, last_refill, requests, connections, total, history>>
           \/ /\ ~Flood(is_syn) /\ Full(ip)
              /\ record_event(ip, 5)
              /\ UNCHANGED <<tokens, last_refill, requests, connections, total, history>>
           \/ ~Flood(is_syn) /\ ~Full(ip) /\ Limited(ip)
  /\ UNCHANGED <<now, banned>>

-----------------------------------------------------------------------------

\* release_connection, called for a connection that was admitted
release_connection(ip) ==
  /\ "release" \in Calls /\ open[ip] > 0
  /\ connections' = [connections EXCEPT ![ip] = IF @ > 0 THEN @ - 1 ELSE @]
  /\ total' = IF total > 0 THEN total - 1 ELSE total
  /\ open' = [open EXCEPT ![ip] = @ - 1]
  /\ UNCHANGED <<now, tokens, last_refill, requests, syn_timestamps, reputation,
                 blocked_ips, admitted, banned, calls>>

ban_ip(ip) ==
  /\ "ban" \in Calls /\ calls < MaxCalls /\ calls' = calls + 1
  /\ blocked_ips' = [blocked_ips EXCEPT ![ip] = now + BanTime]
  /\ scores' = [scores EXCEPT ![ip] = BanThreshold + BanTime]
  /\ banned' = [banned EXCEPT ![ip] = TRUE]
  /\ UNCHANGED <<now, limits, events, history>>

unban_ip(ip) ==
  /\ "unban" \in Calls /\ banned[ip]
  /\ blocked_ips' = [blocked_ips EXCEPT ![ip] = 0]
  /\ banned' = [banned EXCEPT ![ip] = FALSE]
  /\ UNCHANGED <<now, limits, reputation, history, calls>>

cleanup_expired ==
  /\ "cleanup" \in Calls
  /\ blocked_ips' = [ip \in Ips |-> Unblocked(ip)]
  /\ UNCHANGED <<now, limits, reputation, history, banned, calls>>

\* TokenBucket.available: the refill is added, last_refill is left alone.
available ==
  /\ "available" \in Calls
  /\ tokens' = Refilled
  /\ UNCHANGED <<now, last_refill, requests, connections, total, syn_timestamps,
                 reputation, blocked_ips, history, banned, calls>>

\* A ban is over when its time has come.
Tick ==
  /\ now < MaxTime /\ now' = now + 1
  /\ banned' = [ip \in Ips |-> banned[ip] /\ blocked_ips[ip] > now + 1]
  /\ UNCHANGED <<limits, reputation, blocked_ips, history, calls>>

Next ==
  \/ \E ip \in Ips, is_syn \in BOOLEAN : check_request(ip, is_syn)
  \/ \E ip \in Ips : release_connection(ip) \/ ban_ip(ip) \/ unban_ip(ip)
  \/ cleanup_expired \/ available \/ Tick

Spec == Init /\ [][Next]_vars

-----------------------------------------------------------------------------

Between(a, b) == {n \in DOMAIN admitted : admitted[n][2] \in a .. b}

\* The bucket lets through, in every interval, at most what it holds and what
\* flows in meanwhile (TokenBucket).
BucketBounded ==
  \A a \in 1 .. now : \A b \in a .. now :
    Cardinality(Between(a, b)) <= Capacity + (b - a) * Rate

\* No address gets more than max_requests through in any stretch of time as
\* long as the window, whatever the limiters before it let pass.
WindowBounded ==
  \A ip \in Ips, a \in 1 .. now :
    Cardinality({n \in Between(a, a + Window) : admitted[n][1] = ip}) <= MaxRequests

\* total is the sum of the counts of the addresses.
TotalIsSum == total = MapThenSumSet(LAMBDA ip : connections[ip], Ips)

\* "Track active connections per IP and globally": the count of an address is
\* the number of its connections that were admitted and are not released.
CountsActive == \A ip \in Ips : connections[ip] = open[ip]

\* A ban ends when its time is over or unban_ip is called.
BanEnds == \A ip \in Ips : ~banned[ip] => ~is_banned(ip)
=============================================================================
