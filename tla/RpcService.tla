----------------------------- MODULE RpcService -----------------------------
(* What rpc::Server promises its clients: the request outstanding on a link  *)
(* is answered once, with a reply made for it, unless a crash loses it.      *)
CONSTANTS Clients,   \* REQ sockets connected to the server
          Requests,  \* what a client may ask
          Replies,   \* Replies[r]: the replies made for r
          NoReply

VARIABLE link        \* link[k]: the last exchange of client k, [st, req, rep]

Exchange(st, req, v) == [st |-> st, req |-> req, rep |-> v]

SInit ==
  \E r \in Requests : link = [k \in Clients |-> Exchange("idle", r, NoReply)]

Ask(k, r) ==
  /\ link[k].st = "idle"
  /\ link' = [link EXCEPT ![k] = Exchange("request", r, NoReply)]

Serve(k) ==
  /\ link[k].st = "request"
  /\ \E v \in Replies[link[k].req] : link' = [link EXCEPT ![k] = Exchange("reply", @.req, v)]

Take(k) == link[k].st = "reply" /\ link' = [link EXCEPT ![k] = Exchange("idle", @.req, NoReply)]

(* Any set of exchanges may be lost at once. *)
Lose(S) ==
  /\ \A k \in S : link[k].st = "request"
  /\ link' = [k \in Clients |-> IF k \in S THEN Exchange("lost", link[k].req, NoReply) ELSE link[k]]

SNext ==
  \/ \E k \in Clients : (\E r \in Requests : Ask(k, r)) \/ Serve(k) \/ Take(k)
  \/ \E S \in SUBSET Clients : Lose(S)

SSpec == SInit /\ [][SNext]_link
=============================================================================
