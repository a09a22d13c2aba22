----------------------------- MODULE MCRescore -----------------------------
(* A small instance of Rescore: two comments of one nickname on two posts, a  *)
(* comment of the owner, three files that can be saved and one that cannot.  *)
EXTENDS Rescore

CONSTANTS r1, r2

MCComment == 1..3
MCAdmin == {3}
MCData == <<
    [comment_id |-> 1, entry_id |-> 10, nickname |-> "bot", content |-> "ad",
     written_at |-> 1, is_secret |-> FALSE, is_reply |-> FALSE],
    [comment_id |-> 2, entry_id |-> 20, nickname |-> "bot", content |-> "hi",
     written_at |-> 2, is_secret |-> TRUE, is_reply |-> FALSE],
    [comment_id |-> 3, entry_id |-> 20, nickname |-> "owner", content |-> "ad",
     written_at |-> 3, is_secret |-> FALSE, is_reply |-> TRUE]>>

Repeated == [id |-> "repeat", weight |-> 2, when |-> [same_nickname_count_gte |-> 2]]
Advert   == [id |-> "ad", weight |-> 1,
             when |-> [content_regex |-> {"ad"}, written_between |-> [start |-> {}, end |-> {3}]]]
NoCondition == [id |-> "any", weight |-> 1, when |-> <<>>]
NoOne    == [nicknames |-> {}, nickname_regex |-> {}, comment_ids |-> {}]

Strict == [thresholds |-> [suspicious |-> 1, spam |-> 3], whitelist |-> NoOne,
           rules |-> <<Repeated, Advert>>]
Lenient == [Strict EXCEPT !.whitelist.comment_ids = {2}, !.rules = <<Advert>>]
Broken == [Strict EXCEPT !.rules = <<NoCondition>>]
MCFiles == {Strict, Lenient, Broken}
AnyFilter == [entry_ids |-> {}, written_from |-> {}, written_to |-> {}, levels |-> {},
              statuses |-> {}, min_score |-> {}]
MCFilters == {AnyFilter,
              [AnyFilter EXCEPT !.statuses = {"active", "failed", "deleted"}],
              [AnyFilter EXCEPT !.levels = {"spam", "suspicious"}, !.entry_ids = {20}],
              [AnyFilter EXCEPT !.written_from = {2}, !.written_to = {3}, !.min_score = {1}]}
MCRequest == {r1, r2}
RequestSymmetry == Permutations(MCRequest)
=============================================================================
