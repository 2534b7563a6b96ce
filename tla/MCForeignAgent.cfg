SPECIFICATION FairSpec
CONSTANTS
  Byte = 3
  HomeAddress = {h1, h2}
  Agent = {a1, a2}
  Port = {1}
  Id = {5}
  Lifetime = {0, 5}
  Flags <- MCFlags
  ReplyCode = {0, 128}
  IcmpCode = {1}
  RegistrationLimit = 1
  RequestTimeout = 4
  MaxRequests = 3
INVARIANTS TypeOK UniqueRegistrations
PROPERTIES AnsweredOnce RegistrationsLast RegistrationsRunDown LimitAdmitsNone RegistrationsLapse PendingRequestsEnd
