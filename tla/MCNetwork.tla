------------------------------ MODULE MCNetwork -----------------------------
(***************************************************************************)
(* A peer uses the network of a node: by a relayed connection or by HTTP   *)
(* requests, under one policy.  The two share nothing else, so TLC looks   *)
(* at behaviours that use one stream or one request (OneAtATime).          *)
(***************************************************************************)
EXTENDS SocksRelay, WebProxy

VARIABLE inUse \* the stream or the request this behaviour is about

OneAtATime == inUse \in Streams \cup Requests /\ UNCHANGED inUse

NetworkInit == Init /\ WebInit /\ inUse \in Streams \cup Requests

RelayStep == inUse \in Streams /\ Next /\ UNCHANGED webVars

WebStep ==
    /\ inUse \in Requests
    /\ WebNext
    /\ \A r \in Requests \ {inUse} : UNCHANGED fetch[r]
    /\ UNCHANGED vars

NetworkNext == OneAtATime /\ (RelayStep \/ WebStep)

NetworkSpec ==
    /\ NetworkInit
    /\ [][NetworkNext]_<<vars, webVars, inUse>>
    /\ Fairness
    /\ WebFairness

-----------------------------------------------------------------------------
\* Types of the variables of both components.
TypesOK == TypeOK /\ WebTypeOK

\* Whatever a name resolves to, and wherever a server redirects, no address of
\* a local network is contacted unless the resource allows it.
OnlyAllowedContacted ==
    /\ \A s \in Streams : \A addr \in contacted[s] :
          AllowsLocalNetwork(s) \/ ~IsLocalTarget(addr)
    /\ HopsAllowed

\* Every connect request is answered and every HTTP request completed, unless
\* an origin stays silent for ever.
RequestsEnd == RequestAnswered /\ ResponseCompletes

=============================================================================
