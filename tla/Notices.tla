------------------------------- MODULE Notices -------------------------------
(***************************************************************************)
(* What the system tells people: members through module Notifications,     *)
(* staff through module AdminFeed.  The two share no variable.             *)
(***************************************************************************)
EXTENDS Notifications, AdminFeed

messageVars == <<device, noticeVars, feedVars>>

MessagesInit == NoticesInit /\ FeedInit

MessagesNext ==
    \/ NoticesNext /\ UNCHANGED feedVars
    \/ FeedNext /\ UNCHANGED <<device, noticeVars>>

MessagesSpec == MessagesInit /\ [][MessagesNext]_messageVars

MessagesOK == NoticesOK /\ FeedOK
=============================================================================
