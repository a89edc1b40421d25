SPECIFICATION Spec
CONSTANTS
    Clients = {c1, c2, c3}
    Anonymous = {c3}
    Beside = {}
INVARIANTS FeedIsSound
PROPERTIES VerdictDelivered FollowerSettles
CHECK_DEADLOCK FALSE
