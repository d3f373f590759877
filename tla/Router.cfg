SPECIFICATION RouterSpec

CONSTANTS
  get = get
  post = post
  u = u
  v = v
  one = one
  any = any
  g = g
  h = h
  Methods <- MCMethods
  Urls <- MCUrls
  Patterns <- MCPatterns
  UrlsOf <- MCUrlsOf
  Handlers <- MCHandlers
  NotFound = NotFound
  MaxRoutes = 3

PROPERTIES
  ImplementsTable
