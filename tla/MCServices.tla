------------------------------ MODULE MCServices ------------------------------
(***************************************************************************)
(* Eleven smaller parts that share no state, side by side for TLC as the   *)
(* ones of MCParts are: the first state chooses one, and only that one     *)
(* runs.                                                                   *)
(***************************************************************************)
EXTENDS BoardCovers, AvatarBatch, TikTokRisk, EndpointPages, DetailLinks, FolderNames,
        IdentityStore, CollectionAudit, FeedComments, FeedMarks, AccountActivity

VARIABLE part
vars == <<part, coverVars, avatarVars, riskVars, endpointVars, linksVars, namesVars,
          storeVars, auditVars, commentVars, markVars, activityVars>>

\* The first states of some parts where they do not run.
OneListing == kind = (CHOOSE k \in Kinds : TRUE) /\ budget = Endless /\ ~hints
OneBatch == noted = {} /\ chosen = Portraits /\ ~skips
OneAudit ==
    /\ author = [w \in Work |-> NoAuthor] /\ nameless = {}
    /\ ask = [limit |-> 2, size |-> 1, browser |-> FALSE]

Init ==
    /\ part \in {"covers", "avatars", "risk", "pages", "links", "names", "store", "audit",
                 "comments", "marks", "activity"}
    /\ ActivityInit /\ (part # "activity" => ~turnsBack)
    /\ CoverInit /\ StoreInit /\ CommentsInit /\ MarksInit
    /\ AvatarInit /\ (part # "avatars" => OneBatch)
    /\ RiskInit /\ (part # "risk" => ~skipOnRisk)
    /\ EndpointInit /\ (part # "pages" => OneListing)
    /\ LinksInit /\ (part # "links" => names = [l \in Links |-> <<>>])
    /\ NamesInit /\ (part # "names" => order = <<"text">>)
    /\ AuditInit /\ (part # "audit" => OneAudit)

Next ==
    \/ /\ part = "covers" /\ CoverNext
       /\ UNCHANGED <<part, avatarVars, riskVars, endpointVars, linksVars, namesVars,
                   storeVars, auditVars, commentVars, markVars, activityVars>>
    \/ /\ part = "avatars" /\ AvatarNext
       /\ UNCHANGED <<part, coverVars, riskVars, endpointVars, linksVars, namesVars,
                   storeVars, auditVars, commentVars, markVars, activityVars>>
    \/ /\ part = "risk" /\ RiskNext
       /\ UNCHANGED <<part, coverVars, avatarVars, endpointVars, linksVars, namesVars,
                   storeVars, auditVars, commentVars, markVars, activityVars>>
    \/ /\ part = "pages" /\ EndpointNext
       /\ UNCHANGED <<part, coverVars, avatarVars, riskVars, linksVars, namesVars, storeVars,
                   auditVars, commentVars, markVars, activityVars>>
    \/ /\ part = "links" /\ LinksNext
       /\ UNCHANGED <<part, coverVars, avatarVars, riskVars, endpointVars, namesVars,
                   storeVars, auditVars, commentVars, markVars, activityVars>>
    \/ /\ part = "names" /\ NamesNext
       /\ UNCHANGED <<part, coverVars, avatarVars, riskVars, endpointVars, linksVars,
                   storeVars, auditVars, commentVars, markVars, activityVars>>
    \/ /\ part = "store" /\ StoreNext
       /\ UNCHANGED <<part, coverVars, avatarVars, riskVars, endpointVars, linksVars,
                   namesVars, auditVars, commentVars, markVars, activityVars>>
    \/ /\ part = "audit" /\ AuditNext
       /\ UNCHANGED <<part, coverVars, avatarVars, riskVars, endpointVars, linksVars,
                   namesVars, storeVars, commentVars, markVars, activityVars>>
    \/ /\ part = "comments" /\ CommentsNext
       /\ UNCHANGED <<part, coverVars, avatarVars, riskVars, endpointVars, linksVars,
                   namesVars, storeVars, auditVars, markVars, activityVars>>
    \/ /\ part = "marks" /\ MarksNext
       /\ UNCHANGED <<part, coverVars, avatarVars, riskVars, endpointVars, linksVars,
                   namesVars, storeVars, auditVars, commentVars, activityVars>>
    \/ /\ part = "activity" /\ ActivityNext
       /\ UNCHANGED <<part, coverVars, avatarVars, riskVars, endpointVars, linksVars,
                   namesVars, storeVars, auditVars, commentVars, markVars>>

Spec == Init /\ [][Next]_vars

-----------------------------------------------------------------------------
(* Properties: each one is a promise that several of the parts keep *)

\* Every variable of the parts has its type.
TypeOK ==
    /\ CoverTypeOK /\ AvatarTypeOK /\ RiskTypeOK /\ EndpointTypeOK /\ LinksTypeOK
    /\ NamesTypeOK /\ StoreTypeOK /\ AuditTypeOK /\ CommentsTypeOK /\ MarksTypeOK
    /\ ActivityTypeOK

\* What is answered is whole: the pages of an endpoint have neither gap nor
\* double, the answer to a list of links accounts for every link, and the
\* report of an audit says of the collection what is in it.
AnswersWhole == ListingsWhole /\ LinksAnswered /\ AuditExact

\* What is written stands: the tables of the identity store agree whatever is
\* killed between two writes, a renamed account keeps its works, and the
\* listing of the likes is the marks there are.
RecordsStand == StoreSound /\ NamesFollow /\ LikesListed

\* Requests keep their distance however callers overlap: none goes out while
\* a pause for risk holds, and the comments are fetched one at a time.
RequestsPaced == PausesKept /\ CommentsPaced

\* What the account board shows stands: a cover the user pinned is replaced by
\* the user alone, a batch draws every account's avatar once over restarts, and
\* the newest work a crawl has seen stays known.
BoardStands == CoversKept /\ AvatarsOnce /\ NewestIsKnown
=============================================================================
