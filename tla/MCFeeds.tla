-------------------------------- MODULE MCFeeds --------------------------------
(***************************************************************************)
(* The three social feeds in one run: a behaviour is one feed's, and the   *)
(* other two stay in their initial states.  (They share nothing but the    *)
(* queue, whose part in a feed is its job's lease.)                        *)
(***************************************************************************)
EXTENDS NostrRelay, BlueskyStream, MastodonTags, TLC

VARIABLE feed

CONSTANTS p1, d1, alice, r1, r2, u1, u2, tag1, tag2, w1, w2

MCAuthor == [e \in Events |-> alice]
MCAt == [e \in Events |-> IF e \in Deletions THEN 4 ELSE 3]
MCNamed == [d \in Deletions |-> Posts]
MCClaims == [r \in Relays |-> IF r = r1 THEN 2 ELSE 1]
MCWorkers == {w1, w2}

Frame(uri, op, ok, fit) ==
    [type |-> "post", uri |-> uri, op |-> op, sound |-> ok, small |-> fit,
     dated |-> TRUE, keyword |-> TRUE]

MCFrames ==
    {Frame(u1, "put", TRUE, TRUE), Frame(u1, "delete", TRUE, TRUE),
     Frame(u2, "put", TRUE, FALSE),
     [Frame(u1, "put", TRUE, TRUE) EXCEPT !.type = "other"]}

MCStatuses == {[tags |-> {tag1, tag2}, form |-> f] : f \in {"sound", "nameless"}}
MCAttempts == [t \in Tags |-> IF t = tag1 THEN 2 ELSE 1]

feedVars == <<nostrVars, blueskyVars, mastodonVars, feed>>

FeedInit ==
    /\ NostrInit /\ BlueskyInit /\ MastodonInit
    /\ feed \in {"nostr", "bluesky", "mastodon"}

FeedNext ==
    /\ UNCHANGED feed
    /\ \/ feed = "nostr" /\ NostrNext /\ UNCHANGED <<blueskyVars, mastodonVars>>
       \/ feed = "bluesky" /\ BlueskyNext /\ UNCHANGED <<nostrVars, mastodonVars>>
       \/ feed = "mastodon" /\ MastodonNext /\ UNCHANGED <<nostrVars, blueskyVars>>

FeedSpec == FeedInit /\ [][FeedNext]_feedVars

FeedSymmetry == Permutations(MCWorkers)
================================================================================
