\* Init, the compositor and the shell, and the services that init starts, on
\* four slots that are each used twice; capacities that make everything full.
SPECIFICATION Spec
CONSTANTS
  MaxTasks = 4
  MaxChannels = 4
  ChannelCap = 1
  BacklogCap = 1
  MaxGeneration = 2
  Nothing = Nothing
  TimedOut = TimedOut
  Payloads = {a}
  MaxHandles = 2
  Builtins = {"comp", "shell"}
  GrantLists <- MCGrantLists
INVARIANTS
  TypeOK OneReceiver HomeStaysOpen SpawnStaysValid NoticesAreExact StacksFit
  NoLostWakeup 
PROPERTIES MailboxSpec SchedulerSpec
