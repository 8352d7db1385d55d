----------------------------- MODULE MailMessage ----------------------------
(* What the synchronisation of a mailbox (module Mailbox) and its protocols    *)
(* (GraphSync, GmailSync, ImapSync) share: folders, and the messages a listing *)
(* hands to the ingestion.                                                     *)
EXTENDS Naturals, Sequences

CONSTANTS FolderOrder, \* the folders, in the order a provider's are listed
          MaxLoc,      \* identifiers the message may get at the provider
          MaxVer       \* changes of the message at the provider

Folder == {FolderOrder[i] : i \in 1..Len(FolderOrder)}
Flag == {"on", "off"}
Loc == 1..MaxLoc
NoFolder == "none"

ASSUME MailAssumption ==
  /\ FolderOrder \in Seq(STRING) /\ Len(FolderOrder) > 0 /\ NoFolder \notin Folder
  /\ MaxLoc \in Nat \ {0} /\ MaxVer \in Nat

\* pid: providerId; del: deleted; meta: metadataOnly; prev: previousProviderId.
NewMsg == [pid |-> 1, del |-> FALSE, meta |-> FALSE, folder |-> NoFolder, flag |-> "off", prev |-> 0]
=============================================================================
