SPECIFICATION ApiSpec
CONSTANT MaxEvents = 2
INVARIANT StopBlocksMutations
