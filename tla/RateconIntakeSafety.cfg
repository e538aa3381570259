SPECIFICATION Spec
CONSTANTS
  Workers = 2
  Mails <- MCMails
  Mail <- MCMail
  Limit = 2
  Places <- MCPlaces
  Asking = {"l1"}
  Awaiting <- MCAwaiting
  Failing <- MCFailing
  Streams <- MCStreams
  MaxReminders = 1
INVARIANTS RecordInv NewestRateconStands OwnThread TextInv
PROPERTY BoundOnce
CHECK_DEADLOCK FALSE
