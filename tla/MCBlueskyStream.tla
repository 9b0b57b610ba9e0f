---------------------------- MODULE MCBlueskyStream ----------------------------
EXTENDS BlueskyStream

CONSTANTS u1, u2

Frame(type, uri, op, sound, fit) ==
    [type |-> type, uri |-> uri, op |-> op, sound |-> sound, small |-> fit,
     dated |-> TRUE, keyword |-> TRUE]

MCFrames ==
    {Frame("post", u1, "put", TRUE, TRUE), Frame("post", u1, "delete", TRUE, TRUE),
     Frame("post", u2, "put", TRUE, TRUE), Frame("post", u1, "put", TRUE, FALSE),
     Frame("other", u1, "put", TRUE, TRUE)}
===============================================================================
