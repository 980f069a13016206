----------------------------- MODULE MCServices -----------------------------
(* Four parts of the service that share no state, each checked on its own: *)
(* one of them is awake from the start and the others stand still, so the  *)
(* states are the union of the four state spaces, and not their product.   *)
EXTENDS MessageFeed, PushDelivery, MailQueue, ListCache

VARIABLE awake

MCInit ==
  /\ awake \in {"feed", "push", "mail", "cache"}
  /\ FeedInit /\ PushInit /\ MailInit /\ CacheInit
  /\ awake # "feed" => room = "board"
  /\ awake # "mail" => queueEnabled
  /\ awake # "cache" => list = "members"

MCNext ==
  /\ UNCHANGED awake
  /\ \/ awake = "feed" /\ FeedNext /\ UNCHANGED <<pushVars, mailVars, cacheVars>>
     \/ awake = "push" /\ PushNext /\ UNCHANGED <<feedVars, mailVars, cacheVars>>
     \/ awake = "mail" /\ MailNext /\ UNCHANGED <<feedVars, pushVars, cacheVars>>
     \/ awake = "cache" /\ CacheNext /\ UNCHANGED <<feedVars, pushVars, mailVars>>

MCSpec ==
  /\ MCInit /\ [][MCNext]_<<awake, feedVars, pushVars, mailVars, cacheVars>>
  /\ FeedFairness /\ MailFairness /\ CacheFairness
=============================================================================
