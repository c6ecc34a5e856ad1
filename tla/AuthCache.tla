------------------------------ MODULE AuthCache ------------------------------
(***************************************************************************)
(* How the api server recognises access tokens and agents                  *)
(* (api_server/common/auth_check.py): a record that the database returned  *)
(* is kept for a while in a cache, ASSV.user_info_cache_by_access_token or *)
(* agent_info_cache_by_agent_id, which requests fill and read between the  *)
(* awaits of others.                                                       *)
(*                                                                         *)
(* The caches are TTLRU's, which count an entry's life from the moment it  *)
(* was set; their size is not a bound here.                                *)
(***************************************************************************)
EXTENDS Integers, Sequences

CONSTANTS
  Requests,  \* requests that are being authorised
  Token,     \* the access token of a user, to whom the agents belong
  AgentIds,  \* ids of the agent table
  TTL,       \* ttl of the caches
  DELAY,     \* how long a record may be on its way from the database
  MaxTime    \* bound on the clock

ASSUME AuthAssumption ==
  /\ Token \notin AgentIds
  /\ TTL \in Nat /\ DELAY \in Nat /\ MaxTime \in Nat

Keys == {Token} \cup AgentIds

\* What check_user_id_auth_by_req and check_agent_id_auth_by_req look up.
Paths == {<<Token>>} \cup {<<Token, a>> : a \in AgentIds}

VARIABLES
  now,     \* the api server's clock
  record,  \* the record of each key in the user and agent tables
  gone,    \* history: when it was deleted
  cache,   \* when the entry of each key ends
  auth,    \* where each request is
  todo,    \* the keys it has still to present
  found,   \* did the database return a record?
  read     \* when

recordVars == <<record, gone>>
requestVars == <<auth, todo, found, read>>
authVars == <<now, recordVars, cache, requestVars>>

AuthTypeOK ==
  /\ now \in 0 .. MaxTime
  /\ record \in [Keys -> {"unborn", "present", "deleted"}]
  /\ gone \in [Keys -> 0 .. MaxTime]
  /\ cache \in [Keys -> 0 .. MaxTime + TTL]
  /\ auth \in [Requests -> {"idle", "lookup", "asking", "read",
                            "accepted", "refused"}]
  /\ todo \in [Requests -> Seq(Keys)]
  /\ found \in [Requests -> BOOLEAN]
  /\ read \in [Requests -> 0 .. MaxTime]

AuthInit ==
  /\ now = 0
  /\ record \in [Keys -> {"unborn", "present"}]
  /\ record[Token] = "present"
  /\ gone = [k \in Keys |-> 0]
  /\ cache = [k \in Keys |-> 0]
  /\ auth = [r \in Requests |-> "idle"]
  /\ todo = [r \in Requests |-> <<>>]
  /\ found = [r \in Requests |-> FALSE]
  /\ read = [r \in Requests |-> 0]

-----------------------------------------------------------------------------
(* The tables                                                               *)

\* DELAY is not the code's: it sets no limit to a query.
Tick ==
  /\ now < MaxTime
  /\ \A r \in Requests : auth[r] = "read" => now < read[r] + DELAY
  /\ now' = now + 1
  /\ UNCHANGED <<recordVars, cache, requestVars>>

\* add_agent
Create(a) ==
  /\ record[a] = "unborn"
  /\ record' = [record EXCEPT ![a] = "present"]
  /\ UNCHANGED <<now, gone, cache, requestVars>>

\* remove_agent, which does not tell the cache.  Nothing deletes a user.
Withdraw(a) ==
  /\ record[a] = "present"
  /\ record' = [record EXCEPT ![a] = "deleted"]
  /\ gone' = [gone EXCEPT ![a] = now]
  /\ UNCHANGED <<now, cache, requestVars>>

-----------------------------------------------------------------------------
(* A request                                                                *)

Ask(r, path) ==
  /\ auth[r] = "idle"
  /\ auth' = [auth EXCEPT ![r] = "lookup"]
  /\ todo' = [todo EXCEPT ![r] = path]
  /\ UNCHANGED <<now, recordVars, cache, found, read>>

Key(r) == Head(todo[r])

Cached(k) == now < cache[k]

Expiry == now + TTL

\* The key is recognised: on to the next, or all are.
Recognise(r) ==
  /\ todo' = [todo EXCEPT ![r] = Tail(@)]
  /\ auth' = [auth EXCEPT ![r] = IF Tail(todo[r]) = <<>>
                                      THEN "accepted" ELSE "lookup"]

LookupWrong(r) ==
  /\ auth[r] = "lookup"
  /\ IF Cached(Key(r))
     THEN /\ Recognise(r)
          /\ cache' = [cache EXCEPT ![Key(r)] = Expiry]
     ELSE /\ auth' = [auth EXCEPT ![r] = "asking"]
          /\ UNCHANGED <<todo, cache>>
  /\ UNCHANGED <<now, recordVars, found, read>>

\* cache.get returns None for an entry that is None as for one that is not there.
Lookup(r) ==
  /\ auth[r] = "lookup"
  /\ IF Cached(Key(r))
     THEN Recognise(r)
     ELSE auth' = [auth EXCEPT ![r] = "asking"] /\ UNCHANGED todo
  /\ UNCHANGED <<now, recordVars, cache, found, read>>

\* get_user_info or get_agent_info; an error returns no record either.
Query(r) ==
  /\ auth[r] = "asking"
  /\ auth' = [auth EXCEPT ![r] = "read"]
  /\ \E ok \in BOOLEAN :
       found' = [found EXCEPT ![r] = ok /\ record[Key(r)] = "present"]
  /\ read' = [read EXCEPT ![r] = now]
  /\ UNCHANGED <<now, recordVars, cache, todo>>

\* The coroutine goes on with what was read.  None overwrites what another
\* request may have put there meanwhile.
Fill(r) ==
  /\ auth[r] = "read"
  /\ IF found[r]
     THEN /\ cache' = [cache EXCEPT ![Key(r)] = Expiry]
          /\ Recognise(r)
     ELSE /\ cache' = [cache EXCEPT ![Key(r)] = 0]
          /\ auth' = [auth EXCEPT ![r] = "refused"]
          /\ UNCHANGED todo
  /\ found' = [found EXCEPT ![r] = FALSE]
  /\ read' = [read EXCEPT ![r] = 0]
  /\ UNCHANGED <<now, recordVars>>

\* The handler goes on without it, or its client is gone.
Leave(r) ==
  /\ auth' = [auth EXCEPT ![r] = "idle"]
  /\ todo' = [todo EXCEPT ![r] = <<>>]
  /\ found' = [found EXCEPT ![r] = FALSE]
  /\ read' = [read EXCEPT ![r] = 0]
  /\ UNCHANGED <<now, recordVars, cache>>

Authorise(r) == Lookup(r) \/ Query(r) \/ Fill(r)

TableStep == Tick \/ \E a \in AgentIds : Create(a) \/ Withdraw(a)

RequestStep(r) == (\E path \in Paths : Ask(r, path)) \/ Authorise(r) \/ Leave(r)

AuthNext == TableStep \/ \E r \in Requests : RequestStep(r)

AuthSpec == AuthInit /\ [][AuthNext]_authVars
-----------------------------------------------------------------------------
(* Properties                                                               *)

\* A token or agent that was withdrawn is recognised no longer than the life of
\* an entry that a query filled which had read it before, however requests,
\* withdrawals and failing queries interleave.
WithdrawnExpires ==
  [][\A r \in Requests :
       /\ auth[r] \in {"lookup", "read"}
       /\ auth'[r] \in {"lookup", "accepted"} /\ todo'[r] # todo[r]
       => \/ record[Key(r)] = "present"
          \/ /\ record[Key(r)] = "deleted"
             /\ now <= gone[Key(r)] + TTL + DELAY]_authVars
=============================================================================
